---- MODULE Spec2Model ----
(***************************************************************************)
(* A model of wandb.sdk.artifacts.artifact.Artifact: one Artifact object   *)
(* (the record `self`), the calls a caller can make on it, and what each   *)
(* call sends to the metadata service and does to the download root.       *)
(***************************************************************************)
EXTENDS Integers, Sequences, FiniteSets, TLC

(* ------------------------------------------------------------------ *)
(* Bounds of the model                                                 *)
(* ------------------------------------------------------------------ *)

\* save() calls on a Draft are followed up to this many submissions
MaxLogCalls == 2

\* version indices the metadata service hands out: 0..MaxVersionIndex
MaxVersionIndex == 1

(* ------------------------------------------------------------------ *)
(* Values                                                              *)
(* ------------------------------------------------------------------ *)

\* Python's None and a present value, for Optional[...] fields
None == << >>

Some(v) == << v >>

\* ArtifactState (wandb.sdk.artifacts.artifact_state), as used by artifact.py
PENDING == "PENDING"

COMMITTED == "COMMITTED"

DELETED == "DELETED"

\* the states the metadata service reports for an artifact it returns
ServiceStates == {COMMITTED, DELETED}

\* "v{}".format(versionIndex)
VersionNames == << "v0", "v1", "v2", "v3" >>

VersionAlias(n) == VersionNames[n + 1]

VersionIdx == 0 .. MaxVersionIndex

\* names a caller passes to add_file / add / get_path
Names == {"a", "b"}

\* the names of the model's main specification
FewNames == {"a"}

\* WBValue.with_suffix(name) for the one registered type of the model (table)
with_suffix(n) ==
    CASE n = "a" -> "a.table.json"
      [] n = "b" -> "b.table.json"
      [] n = "junk" -> "junk.table.json"
      [] OTHER -> n

\* logical paths of manifest entries
Paths == Names \cup {with_suffix(n) : n \in Names}

\* content digests (base64 MD5 of a file's bytes)
Digests == {"d1", "d2"}

\* digests of reference entries (an ETag, a version id: opaque to the artifact)
RefDigests == {"etag"}

\* aliases a caller may assign; the last one is rejected by the setter
GoodAliases == {"latest"}

BadAliases == {"x:y"}

\* descriptions
Descriptions == {None, Some("text")}

VARIABLES
    origin,     \* "none" before the object exists, "ctor" (Artifact(...)) or "loaded" (from_attrs)
    self,       \* the Artifact's fields
    lastOp,     \* the call made last
    result,     \* its outcome: Return(v) or Raise(exception)
    sent,       \* the requests that call sent to the metadata service, in order
    logCalls,   \* how many times run.log_artifact(self) was called
    rootFiles,  \* relative paths of the files under the download root
    tmpFiles,   \* names present in self._tmp_dir
    disk,       \* the names the caller uses for local files and entries (fixed in a run)
    lastSynced, \* history: the alias set as of the last exchange with the service
    order,      \* the paths of self._manifest.entries in the order the dict holds them
    pool,       \* the worker pool of the add_dir or download call in progress
    other,      \* a second Artifact object of the caller
    collection, \* the service's collection: the manifest digests of its versions, in order
    adds,       \* history: the entries the add_file calls returned, in order
    cache,      \* the artifacts cache: server id -> the Artifact object stored, 0 for none
    objects,    \* how many Artifact objects from_attrs has built
    threads,    \* the from_id call each thread is in
    lookups,    \* history: the lookups that returned an object, in order
    uri,        \* the URI of the last add_reference call, if it names an artifact's entry
    timeouts,   \* history: how many wait(timeout) calls timed out
    fetch,      \* the content-fetch index and the workers asking it for content
    root,       \* the files under the download root: relative path -> bytes
    since,      \* history: what was written under the root since the last download
                \* returned, and the name get_path was last asked for
    stage,      \* the caller's source files and the staging copies made of them:
                \* file -> bytes, the staging file of each entry, and the add_file
                \* call that has hashed its source and not yet copied it
    draft,      \* the dict objects that hold metadata, the one self._metadata is,
                \* and the artifact new_draft returned, if any
    fsm,        \* a state machine (Fsm): its current state and, as history, what
                \* each input call did
    agent       \* a JupyterAgent: its paused flag, its run manager, and, as history,
                \* the calls made to the run managers

\* the state of the lookups through the artifacts cache
lookupVars == << cache, objects, threads, lookups, uri >>

\* the state of the specifications of fetching, of the download root and of staging
\* the state of the specifications of drafts, of the state machine and of the agent
lastVars == << draft, fsm, agent >>

laterVars == << timeouts, fetch, root, since, stage, lastVars >>

vars == << origin, self, lastOp, result, sent, logCalls, rootFiles, tmpFiles, disk,
           lastSynced, order, pool, other, collection, adds, lookupVars, laterVars >>

\* what the calls of the one-artifact specification never change
env == << disk, order, pool, other, collection, adds, lookupVars, laterVars >>

\* a request to the metadata service and the service's reply to it
Req(op, al, d, flag, reply) ==
    [op |-> op, aliases |-> al, description |-> d, flag |-> flag, reply |-> reply]

Return(v) == [kind |-> "return", value |-> v]

Raise(e) == [kind |-> "raise", exc |-> e]

Returned == result.kind = "return"

Raised(e) == result = Raise(e)

\* a manifest: logical path -> entry; an entry carries its digest and whether it is a reference
Entry(d, r) == [digest |-> d, ref |-> r]

EmptyManifest == [p \in {} |-> Entry("d1", FALSE)]

ManifestsOver(NS) == UNION {[S -> {Entry(d, FALSE) : d \in Digests}] : S \in SUBSET NS}

\* no pool exists: no add_dir or download call is in progress
NoPool ==
    [ op |-> "none", phase |-> "idle", files |-> << >>, unreadable |-> {},
      todo |-> {}, running |-> {}, failed |-> {}, workers |-> "none",
      before |-> << >> ]

\* server ids of the artifacts the service has
Ids == {"A", "B", "C"}

Threads == {1, 2}

\* nothing was looked up
NoLookups ==
    /\ cache = [i \in Ids |-> 0]
    /\ objects = 0
    /\ threads = [t \in Threads |-> "idle"]
    /\ lookups = << >>
    /\ uri = None

\* no fetch was asked for
NoFetch == [index |-> [d \in Digests |-> "none"], count |-> [d \in Digests |-> 0],
            worker |-> << >>]

\* no download has returned
NoDownload == [downloaded |-> FALSE, written |-> {}, asked |-> None]

\* nothing was staged
NoStage == [files |-> << >>, made |-> 0, local_path |-> << >>, pending |-> None]

\* no metadata dict is looked at, and no draft was made
NoDraft == [heap |-> << >>, of_self |-> 0, copy |-> None]

\* no state machine was built
NoFsm == [_state |-> "none", calls |-> << >>]

\* JupyterAgent.__init__: self.paused = True, and no run manager yet
NoAgent == [paused |-> TRUE, rm |-> 0, calls |-> << >>, _steps |-> 0, made |-> 0]

NoLast ==
    /\ draft = NoDraft
    /\ fsm = NoFsm
    /\ agent = NoAgent

\* nothing of the later specifications has happened
NoLater ==
    /\ timeouts = 0
    /\ fetch = NoFetch
    /\ root = << >>
    /\ since = NoDownload
    /\ stage = NoStage
    /\ NoLast

(* ------------------------------------------------------------------ *)
(* Artifact.__init__                                                   *)
(* ------------------------------------------------------------------ *)

NewArtifact ==
    [ _state |-> PENDING,
      _final |-> FALSE,
      _save_future |-> FALSE,
      _client |-> FALSE,
      _id |-> None,
      _entity |-> None,
      _project |-> None,
      _version |-> None,
      _source_entity |-> None,
      _source_project |-> None,
      _source_version |-> None,
      _description |-> None,
      _aliases |-> {"latest"},
      _saved_aliases |-> {},
      _manifest |-> EmptyManifest,
      _commit_hash |-> None,
      _file_count |-> None,
      _created_at |-> None,
      _updated_at |-> None ]

Init ==
    /\ origin = "none"
    /\ self = NewArtifact
    /\ lastOp = "none"
    /\ result = Return(None)
    /\ sent = << >>
    /\ logCalls = 0
    /\ rootFiles = {}
    /\ tmpFiles = {}
    /\ disk = FewNames
    /\ lastSynced = {}
    /\ order = << >>
    /\ pool = NoPool
    /\ other = NewArtifact
    /\ collection = << >>
    /\ adds = << >>
    /\ NoLookups
    /\ NoLater

\* the frame of a call that does not touch the file system
NoFiles == UNCHANGED << rootFiles, tmpFiles, env >>

\* artifact types: one of the caller's, and the two kinds __init__ reserves
ArtifactTypes == {"dataset", "job", "wandb-history"}

\* type == "job" or type.startswith("wandb-")
reserved(ty) == ty \in {"job", "wandb-history"}

\* artifact = Artifact(name, type): a reserved type raises ValueError
Construct ==
    /\ origin = "none"
    /\ lastOp' = "Artifact"
    /\ sent' = << >>
    /\ \E ty \in ArtifactTypes :
           IF reserved(ty)
           THEN /\ result' = Raise("ValueError")
                /\ UNCHANGED << origin, self >>
           ELSE /\ result' = Return(None)
                /\ origin' = "ctor"
                /\ self' = NewArtifact
    /\ UNCHANGED << logCalls, lastSynced >>
    /\ NoFiles

(* ------------------------------------------------------------------ *)
(* Artifact.from_attrs (reached through from_id / from_name)           *)
(* ------------------------------------------------------------------ *)

\* from_attrs without its last assignment, `artifact._final = True`
from_attrs_not_final(st, pv, vi, al, d, m) ==
    [ NewArtifact EXCEPT
        !._client = TRUE,
        !._id = Some("id"),
        !._entity = Some("entity"),
        !._project = Some("project"),
        !._version = Some(VersionAlias(pv)),
        !._source_entity = Some("entity"),
        !._source_project = Some("project"),
        !._source_version = Some(VersionAlias(vi)),
        !._description = d,
        !._aliases = al,
        !._saved_aliases = al,
        !._state = st,
        !._manifest = m,
        !._commit_hash = Some("hash"),
        !._file_count = Some(Cardinality(DOMAIN m)),
        !._created_at = Some("t0"),
        !._updated_at = Some("t1") ]

\* what the metadata service answers for one artifact: state, version in the
\* named collection, versionIndex in its sequence, aliases, description, manifest
from_attrs(st, pv, vi, al, d, m) ==
    [ NewArtifact EXCEPT
        !._client = TRUE,
        !._id = Some("id"),
        !._entity = Some("entity"),
        !._project = Some("project"),
        !._version = Some(VersionAlias(pv)),
        !._source_entity = Some("entity"),
        !._source_project = Some("project"),
        !._source_version = Some(VersionAlias(vi)),
        !._description = d,
        !._aliases = al,
        !._saved_aliases = al,
        !._state = st,
        !._manifest = m,
        !._commit_hash = Some("hash"),
        !._file_count = Some(Cardinality(DOMAIN m)),
        !._created_at = Some("t0"),
        !._updated_at = Some("t1"),
        !._final = TRUE ]

\* Artifact.from_id / Artifact.from_name: the query, then from_attrs, which
\* builds the object with cls(name, attrs["artifactType"]["name"]). A query
\* that finds nothing, or a manifest that cannot be fetched, returns no object.
Load ==
    /\ origin = "none"
    /\ lastOp' = "from_attrs"
    /\ UNCHANGED logCalls
    /\ NoFiles
    /\ \/ /\ \E ty \in ArtifactTypes :
                IF reserved(ty)
                THEN /\ result' = Raise("ValueError")
                     /\ UNCHANGED << origin, self, lastSynced >>
                ELSE /\ \E st \in ServiceStates, pv \in VersionIdx, vi \in VersionIdx,
                           al \in SUBSET GoodAliases, d \in Descriptions,
                           m \in ManifestsOver(disk) :
                           /\ self' = from_attrs(st, pv, vi, al, d, m)
                           /\ lastSynced' = al
                     /\ origin' = "loaded"
                     /\ result' = Return(None)
          /\ sent' = << Req("ArtifactByID", None, None, FALSE, "ok") >>
       \/ /\ UNCHANGED << origin, self, lastSynced >>
          /\ result' = Raise("RemoteFetchError")
          /\ sent' = << Req("ArtifactByID", None, None, FALSE, "fail") >>

(* ------------------------------------------------------------------ *)
(* State management: finalize, _ensure_can_add                         *)
(* ------------------------------------------------------------------ *)

Live == origin # "none"

\* the frame of a call that fails before it does anything
Rejected(op, e) ==
    /\ lastOp' = op
    /\ result' = Raise(e)
    /\ sent' = << >>
    /\ UNCHANGED << origin, self, logCalls, lastSynced >>
    /\ NoFiles

finalize ==
    /\ Live
    /\ self' = [self EXCEPT !._final = TRUE]
    /\ lastOp' = "finalize"
    /\ result' = Return(None)
    /\ sent' = << >>
    /\ UNCHANGED << origin, logCalls, lastSynced >>
    /\ NoFiles

\* _ensure_can_add looking at the state instead of the final flag
_ensure_can_add_by_state == self._state # PENDING

\* TRUE when _ensure_can_add raises ArtifactFinalizedError
_ensure_can_add == self._final

(* ------------------------------------------------------------------ *)
(* ArtifactManifest.add_entry                                          *)
(* ------------------------------------------------------------------ *)

\* add_entry raises when the path is taken by an entry of another digest
add_entry_conflict(m, p, e) == p \in DOMAIN m /\ m[p].digest # e.digest

add_entry(m, p, e) == [q \in DOMAIN m \cup {p} |-> IF q = p THEN e ELSE m[q]]

(* ------------------------------------------------------------------ *)
(* Adding entries                                                      *)
(* ------------------------------------------------------------------ *)

\* the frame of an add that changes (at most) the manifest
Added(op, m, r) ==
    /\ lastOp' = op
    /\ result' = r
    /\ sent' = << >>
    /\ self' = [self EXCEPT !._manifest = m]
    /\ UNCHANGED << origin, logCalls, lastSynced >>

\* what an add hands back: the entry with its path; new_file hands back nothing
Handed(op, n, d) ==
    IF op = "new_file" THEN Return(None)
    ELSE Return([path |-> n, digest |-> d, ref |-> FALSE])

\* _add_local_file keeping an entry that exists and recording the new one under
\* another path
_add_local_file_keep_both(op, n, d) ==
    IF n \in DOMAIN self._manifest
    THEN Added(op, add_entry(self._manifest, with_suffix(n), Entry(d, FALSE)), Handed(op, n, d))
    ELSE Added(op, add_entry(self._manifest, n, Entry(d, FALSE)), Handed(op, n, d))

\* _add_local_file(name, path, digest): stage a copy, record the entry
_add_local_file(op, n, d) ==
    IF add_entry_conflict(self._manifest, n, Entry(d, FALSE))
    THEN Added(op, self._manifest, Raise("ValueError"))
    ELSE Added(op, add_entry(self._manifest, n, Entry(d, FALSE)), Handed(op, n, d))

\* add_file(local_path, name): the file may not exist; its bytes hash to d
add_file ==
    /\ Live
    /\ IF _ensure_can_add
       THEN Rejected("add_file", "ArtifactFinalizedError")
       ELSE \E isfile \in BOOLEAN, n \in disk, d \in Digests :
                IF ~isfile
                THEN Rejected("add_file", "ValueError")
                ELSE _add_local_file("add_file", n, d) /\ NoFiles

\* add_dir(local_path): the directory holds files : name -> digest. Every file whose
\* add does not fail is recorded; the call raises when one of them failed.
add_dir ==
    /\ Live
    /\ IF _ensure_can_add
       THEN Rejected("add_dir", "ArtifactFinalizedError")
       ELSE \E isdir \in BOOLEAN, S \in SUBSET disk :
            \E files \in [S -> Digests] :
                IF ~isdir
                THEN Rejected("add_dir", "ValueError")
                ELSE LET bad == {n \in S : add_entry_conflict(self._manifest, n, Entry(files[n], FALSE))}
                         m == [q \in DOMAIN self._manifest \cup S |->
                                  IF q \in S \ bad THEN Entry(files[q], FALSE)
                                  ELSE self._manifest[q]]
                     IN  /\ Added("add_dir", m,
                                  IF bad = {} THEN Return(None) ELSE Raise("ValueError"))
                         /\ NoFiles

\* add_reference(uri, name): the storage policy turns the URI into one entry
add_reference ==
    /\ Live
    /\ IF _ensure_can_add
       THEN Rejected("add_reference", "ArtifactFinalizedError")
       ELSE \E scheme \in BOOLEAN, n \in disk, d \in RefDigests :
                IF ~scheme
                THEN Rejected("add_reference", "ValueError")
                ELSE /\ IF add_entry_conflict(self._manifest, n, Entry(d, TRUE))
                        THEN Added("add_reference", self._manifest, Raise("ValueError"))
                        ELSE Added("add_reference",
                                   add_entry(self._manifest, n, Entry(d, TRUE)), Return(None))
                     /\ NoFiles

\* new_file(name): open name in the artifact's temporary directory, let the
\* caller write it (the body may raise), then add_file it
new_file ==
    /\ Live
    /\ IF _ensure_can_add
       THEN Rejected("new_file", "ArtifactFinalizedError")
       ELSE \E n \in disk, d \in Digests, body \in BOOLEAN :
                IF n \in tmpFiles
                THEN Rejected("new_file", "ValueError")
                ELSE /\ tmpFiles' = tmpFiles \cup {n}
                     /\ UNCHANGED << rootFiles, env >>
                     /\ IF ~body
                        THEN Added("new_file", self._manifest, Raise("Exception"))
                        ELSE _add_local_file("new_file", n, d)

\* add(obj, name): serialise obj to name plus its type suffix through new_file
add ==
    /\ Live
    /\ IF _ensure_can_add
       THEN Rejected("add", "ArtifactFinalizedError")
       ELSE \E allowed \in BOOLEAN, n \in disk, d \in Digests :
                LET p == with_suffix(n) IN
                IF ~allowed
                THEN Rejected("add", "ValueError")
                ELSE IF p \in DOMAIN self._manifest
                THEN Added("add", self._manifest, Return(None)) /\ NoFiles
                ELSE IF p \in tmpFiles
                THEN Rejected("add", "ValueError")
                ELSE /\ tmpFiles' = tmpFiles \cup {p}
                     /\ UNCHANGED << rootFiles, env >>
                     /\ _add_local_file("add", p, d)

(* ------------------------------------------------------------------ *)
(* Setters                                                             *)
(* ------------------------------------------------------------------ *)

\* the frame of a call that changes only fields of the artifact
Field(op, r) ==
    /\ lastOp' = op
    /\ result' = r
    /\ sent' = << >>
    /\ UNCHANGED << origin, logCalls, lastSynced >>
    /\ NoFiles

\* artifact.aliases = [...] : "/" and ":" are refused
set_aliases ==
    /\ Live
    /\ \E al \in SUBSET (GoodAliases \cup BadAliases) :
           IF al \cap BadAliases # {}
           THEN Rejected("aliases=", "ValueError")
           ELSE self' = [self EXCEPT !._aliases = al] /\ Field("aliases=", Return(None))

(* ------------------------------------------------------------------ *)
(* Properties that read server-assigned fields                         *)
(* ------------------------------------------------------------------ *)

\* `assert self._x is not None; return self._x`
Asserted(v) == IF v = None THEN Raise("AssertionError") ELSE Return(v)

\* a property that raises ArtifactNotLoggedError on a Draft
NotLoggedOr(v) ==
    IF self._state = PENDING THEN Raise("ArtifactNotLoggedError") ELSE Asserted(v)

\* a property that returns None on a Draft
NoneOr(v) == IF self._state = PENDING THEN Return(None) ELSE Asserted(v)

\* the properties that read a server-assigned field
Props ==
    {"id", "entity", "project", "version", "source_entity", "source_project",
     "source_version", "commit_hash", "file_count", "created_at", "updated_at"}

\* the same properties without their check of the state
prop_unguarded(f) ==
    CASE f = "id" -> Asserted(self._id)
      [] f = "entity" -> Asserted(self._entity)
      [] f = "project" -> Asserted(self._project)
      [] f = "version" -> Asserted(self._version)
      [] f = "source_entity" -> Asserted(self._source_entity)
      [] f = "source_project" -> Asserted(self._source_project)
      [] f = "source_version" -> Asserted(self._source_version)
      [] f = "commit_hash" -> Asserted(self._commit_hash)
      [] f = "file_count" -> Asserted(self._file_count)
      [] f = "created_at" -> Asserted(self._created_at)
      [] f = "updated_at" -> Asserted(self._updated_at)

\* the outcome of reading property f
prop(f) ==
    CASE f = "id" -> NoneOr(self._id)
      [] f = "entity" -> NotLoggedOr(self._entity)
      [] f = "project" -> NotLoggedOr(self._project)
      [] f = "version" -> NotLoggedOr(self._version)
      [] f = "source_entity" -> NotLoggedOr(self._source_entity)
      [] f = "source_project" -> NotLoggedOr(self._source_project)
      [] f = "source_version" -> NoneOr(self._source_version)
      [] f = "commit_hash" -> NotLoggedOr(self._commit_hash)
      [] f = "file_count" -> NotLoggedOr(self._file_count)
      [] f = "created_at" -> NotLoggedOr(self._created_at)
      [] f = "updated_at" ->
            IF self._state = PENDING THEN Raise("ArtifactNotLoggedError")
            ELSE IF self._created_at = None THEN Raise("AssertionError")
            ELSE Return(IF self._updated_at # None THEN self._updated_at
                        ELSE self._created_at)

\* reading every property, one after the other, changes nothing; the outcome
\* of each read is kept under the property's name
read ==
    /\ Live
    /\ lastOp' = "read"
    /\ result' = [kind |-> "read", value |-> [f \in Props |-> prop(f)]]
    /\ sent' = << >>
    /\ UNCHANGED << origin, self, logCalls, lastSynced >>
    /\ NoFiles

(* ------------------------------------------------------------------ *)
(* save, wait, _populate_after_save, _update                           *)
(* ------------------------------------------------------------------ *)

\* run.log_artifact(self): finalizes the artifact ("This happens automatically
\* when calling log_artifact"), submits it and hands it the future of the reply
log_artifact(a) == [a EXCEPT !._final = TRUE, !._save_future = TRUE, !._client = TRUE]

\* the alias deltas _update computes
aliases_to_add == self._aliases \ self._saved_aliases

aliases_to_delete == self._saved_aliases \ self._aliases

\* _update passing the alias list to updateArtifact whatever the service supports
update_requests_full(supported) ==
    << Req("ProbeServerAddAliasesInput", None, None, FALSE,
           IF supported THEN "AddAliasesInput" ELSE "none"),
       Req("updateArtifact", Some(self._aliases), self._description, FALSE, "ok") >>

\* the requests _update makes, in order, when the service supports AddAliasesInput
\* (backend >= 0.13.0) or not; the last one carries the full alias list only in
\* the second case
update_requests(supported) ==
    IF supported
    THEN << Req("ProbeServerAddAliasesInput", None, None, FALSE, "AddAliasesInput") >>
         \o (IF aliases_to_add # {}
             THEN << Req("addAliases", Some(aliases_to_add), None, FALSE, "ok") >>
             ELSE << >>)
         \o (IF aliases_to_delete # {}
             THEN << Req("deleteAliases", Some(aliases_to_delete), None, FALSE, "ok") >>
             ELSE << >>)
         \o << Req("updateArtifact", None, self._description, FALSE, "ok") >>
    ELSE << Req("ProbeServerAddAliasesInput", None, None, FALSE, "none"),
            Req("updateArtifact", Some(self._aliases), self._description, FALSE, "ok") >>

\* the request at position k failed: it is the last one made
FailAt(reqs, k) == [i \in 1 .. k |-> IF i = k THEN [reqs[i] EXCEPT !.reply = "fail"] ELSE reqs[i]]

\* _update(): every request may fail, which ends the call there; _saved_aliases
\* is brought up to date once the alias requests have gone through. The service
\* holds the in-memory aliases after these, or after a full updateArtifact.
_update ==
    \E supported \in BOOLEAN :
        LET reqs == update_requests(supported) IN
        \E k \in 0 .. Len(reqs) :
            LET synced == supported /\ (k = 0 \/ k = Len(reqs)) IN
            /\ sent' = IF k = 0 THEN reqs ELSE FailAt(reqs, k)
            /\ result' = IF k = 0 THEN Return(None) ELSE Raise("RemoteFetchError")
            /\ self' = IF synced
                       THEN [self EXCEPT !._saved_aliases = self._aliases]
                       ELSE self
            /\ lastSynced' = IF synced \/ (~supported /\ k = 0)
                             THEN self._aliases
                             ELSE lastSynced

\* save(): an update on a non-Draft artifact, else run.log_artifact(self)
save ==
    /\ Live
    /\ lastOp' = "save"
    /\ UNCHANGED origin
    /\ NoFiles
    /\ IF self._state # PENDING
       THEN _update /\ UNCHANGED logCalls
       ELSE /\ logCalls < MaxLogCalls
            /\ logCalls' = logCalls + 1
            /\ self' = log_artifact(self)
            /\ result' = Return(None)
            /\ sent' = << >>
            /\ UNCHANGED lastSynced

\* _populate_after_save numbering the version by the submissions of this
\* process instead of the service's versionIndex
_populate_after_save_counted(st, vi, al, fetched) ==
    [self EXCEPT
        !._id = Some("id"),
        !._entity = Some("entity"),
        !._project = Some("project"),
        !._version = Some(VersionAlias(logCalls - 1)),
        !._source_entity = Some("entity"),
        !._source_project = Some("project"),
        !._source_version = Some(VersionAlias(logCalls - 1)),
        !._aliases = al,
        !._state = st]

\* the fields _populate_after_save assigns from the service's answer; the
\* manifest and the fields after it are assigned only when the manifest file
\* could be fetched
_populate_after_save(st, vi, al, fetched) ==
    LET head == [self EXCEPT
                    !._id = Some("id"),
                    !._entity = Some("entity"),
                    !._project = Some("project"),
                    !._version = Some(VersionAlias(vi)),
                    !._source_entity = Some("entity"),
                    !._source_project = Some("project"),
                    !._source_version = Some(VersionAlias(vi)),
                    !._aliases = al,
                    !._state = st]
    IN  IF fetched
        THEN [head EXCEPT
                 !._commit_hash = Some("hash"),
                 !._file_count = Some(Cardinality(DOMAIN self._manifest)),
                 !._created_at = Some("t0"),
                 !._updated_at = Some("t1")]
        ELSE head

\* wait() without its check of the state
wait_is_pending_always == TRUE

\* wait() looks at the save future only while the artifact is a Draft
wait_is_pending == self._state = PENDING

\* wait(timeout)
wait ==
    /\ Live
    /\ lastOp' = "wait"
    /\ UNCHANGED << origin, logCalls >>
    /\ NoFiles
    /\ IF ~wait_is_pending
       THEN /\ result' = Return(None)
            /\ sent' = << >>
            /\ UNCHANGED << self, lastSynced >>
       ELSE IF ~self._save_future
       THEN /\ result' = Raise("ArtifactNotLoggedError")
            /\ sent' = << >>
            /\ UNCHANGED << self, lastSynced >>
       ELSE \/ /\ result' \in {Raise("WaitTimeoutError"), Raise("ValueError")}
               /\ sent' = << >>
               /\ UNCHANGED << self, lastSynced >>
            \/ /\ result' \in {Raise("RemoteFetchError"), Raise("ValueError")}
               /\ sent' = << Req("ArtifactByID", None, None, FALSE, "fail") >>
               /\ UNCHANGED << self, lastSynced >>
            \/ /\ sent' = << Req("ArtifactByID", None, None, FALSE, "ok") >>
               /\ \E st \in ServiceStates, vi \in VersionIdx,
                     al \in SUBSET GoodAliases, fetched \in BOOLEAN :
                     /\ self' = _populate_after_save(st, vi, al, fetched)
                     /\ lastSynced' = IF fetched THEN al ELSE lastSynced
                     /\ result' = IF fetched THEN Return(None) ELSE Raise("HTTPError")

(* ------------------------------------------------------------------ *)
(* delete                                                              *)
(* ------------------------------------------------------------------ *)

\* delete without its check of the state
delete_unguarded ==
    /\ Live
    /\ lastOp' = "delete"
    /\ \E delete_aliases \in BOOLEAN, reply \in {"ok", "fail"} :
           /\ sent' = << Req("deleteArtifact", None, None, delete_aliases, reply) >>
           /\ result' = IF reply = "ok" THEN Return(None) ELSE Raise("RemoteFetchError")
    /\ UNCHANGED << origin, self, logCalls, lastSynced >>
    /\ NoFiles

\* delete(delete_aliases): the mutation is sent; the service may refuse it
delete ==
    /\ Live
    /\ IF self._state = PENDING
       THEN Rejected("delete", "ArtifactNotLoggedError")
       ELSE /\ lastOp' = "delete"
            /\ \E delete_aliases \in BOOLEAN, reply \in {"ok", "fail"} :
                   /\ sent' = << Req("deleteArtifact", None, None, delete_aliases, reply) >>
                   /\ result' = IF reply = "ok" THEN Return(None) ELSE Raise("RemoteFetchError")
            /\ UNCHANGED << origin, self, logCalls, lastSynced >>
            /\ NoFiles

(* ------------------------------------------------------------------ *)
(* Reading entries, downloading                                        *)
(* ------------------------------------------------------------------ *)

\* _get_obj_entry(name): the entry stored under name plus a type suffix
_get_obj_entry(n) ==
    IF with_suffix(n) \in DOMAIN self._manifest THEN Some(with_suffix(n)) ELSE None

\* a lookup that tries the type suffix first
lookup_suffix_first(n) ==
    IF _get_obj_entry(n) # None THEN _get_obj_entry(n)
    ELSE IF n \in DOMAIN self._manifest THEN Some(n) ELSE None

\* get_path's lookup: entries.get(name) or _get_obj_entry(name)[0]
lookup(n) == IF n \in DOMAIN self._manifest THEN Some(n) ELSE _get_obj_entry(n)

\* names of files that may lie under a download root
RootNames == Paths \cup {"junk"}

\* the frame of a call on a logged artifact that leaves the artifact alone
Logged(op, r, reqs, fs) ==
    /\ lastOp' = op
    /\ result' = r
    /\ sent' = reqs
    /\ rootFiles' = fs
    /\ UNCHANGED << origin, self, logCalls, lastSynced, tmpFiles, env >>

get_path ==
    /\ Live
    /\ IF self._state = PENDING
       THEN Rejected("get_path", "ArtifactNotLoggedError")
       ELSE \E n \in RootNames :
                Logged("get_path",
                       IF lookup(n) = None THEN Raise("KeyError") ELSE Return(lookup(n)),
                       << >>, rootFiles)

\* get(name): None when no suffixed entry exists; else the artifact is downloaded
\* and the object is read from the entry's file
get ==
    /\ Live
    /\ IF self._state = PENDING
       THEN Rejected("get", "ArtifactNotLoggedError")
       ELSE \E n \in disk :
                IF _get_obj_entry(n) = None
                THEN Logged("get", Return(None), << >>, rootFiles)
                ELSE IF self._manifest[with_suffix(n)].ref
                THEN Logged("get", Raise("AttributeError"), << >>, rootFiles)
                ELSE Logged("get", Return(_get_obj_entry(n)), << >>,
                            rootFiles \cup DOMAIN self._manifest)

\* download(root): every entry is fetched into root
download ==
    /\ Live
    /\ IF self._state = PENDING
       THEN Rejected("download", "ArtifactNotLoggedError")
       ELSE Logged("download", Return(None), << >>,
                   rootFiles \cup DOMAIN self._manifest)

\* checkout(root): files get_path does not find are removed, then download
checkout ==
    /\ Live
    /\ IF self._state = PENDING
       THEN Rejected("checkout", "ArtifactNotLoggedError")
       ELSE Logged("checkout", Return(None), << >>,
                   {f \in rootFiles : lookup(f) # None} \cup DOMAIN self._manifest)

\* verify(root): a file get_path does not find fails it; then every entry that
\* is not a reference is hashed
verify ==
    /\ Live
    /\ IF self._state = PENDING
       THEN Rejected("verify", "ArtifactNotLoggedError")
       ELSE Logged("verify",
                   IF \E f \in rootFiles : lookup(f) = None
                   THEN Raise("ValueError")
                   ELSE IF \E q \in DOMAIN self._manifest :
                               ~self._manifest[q].ref /\ q \notin rootFiles
                   THEN Raise("FileNotFoundError")
                   ELSE Return(None),
                   << >>, rootFiles)

\* file(root): the single file of a one-file artifact
file ==
    /\ Live
    /\ IF self._state = PENDING
       THEN Rejected("file", "ArtifactNotLoggedError")
       ELSE LET n == Cardinality(DOMAIN self._manifest) IN
            IF n > 1
            THEN Logged("file", Raise("ValueError"), << >>, rootFiles)
            ELSE IF n = 0
            THEN Logged("file", Raise("IndexError"), << >>, rootFiles)
            ELSE Logged("file", Return(None), << >>,
                        rootFiles \cup DOMAIN self._manifest)

\* files(): an iterator; nothing is asked of the service until it is used
files ==
    /\ Live
    /\ IF self._state = PENDING
       THEN Rejected("files", "ArtifactNotLoggedError")
       ELSE Logged("files", Return(None), << >>, rootFiles)

(* ------------------------------------------------------------------ *)
(* link, used_by, logged_by, json_encode, new_draft                    *)
(* ------------------------------------------------------------------ *)

\* a call that makes one request and returns what the service replies
Asked(op, req) ==
    \E reply \in {"ok", "fail"} :
        Logged(op, IF reply = "ok" THEN Return(None) ELSE Raise("RemoteFetchError"),
               << [req EXCEPT !.reply = reply] >>, rootFiles)

\* link(target_path, aliases)
link ==
    /\ Live
    /\ IF self._state = PENDING
       THEN Rejected("link", "ArtifactNotLoggedError")
       ELSE \E colon \in BOOLEAN, al \in SUBSET GoodAliases :
                IF colon
                THEN Logged("link", Raise("ValueError"), << >>, rootFiles)
                ELSE Asked("link", Req("linkArtifact", Some(al), None, FALSE, "ok"))

used_by ==
    /\ Live
    /\ IF self._state = PENDING
       THEN Rejected("used_by", "ArtifactNotLoggedError")
       ELSE Asked("used_by", Req("ArtifactUsedBy", None, None, FALSE, "ok"))

logged_by ==
    /\ Live
    /\ IF self._state = PENDING
       THEN Rejected("logged_by", "ArtifactNotLoggedError")
       ELSE Asked("logged_by", Req("ArtifactCreatedBy", None, None, FALSE, "ok"))

json_encode ==
    /\ Live
    /\ IF self._state = PENDING
       THEN Rejected("json_encode", "ArtifactNotLoggedError")
       ELSE Logged("json_encode", Return(None), << >>, rootFiles)

\* new_draft(): a new Artifact with this one's description and manifest
new_draft ==
    /\ Live
    /\ IF self._state = PENDING
       THEN Rejected("new_draft", "ArtifactNotLoggedError")
       ELSE Logged("new_draft",
                   [kind |-> "return",
                    value |-> [NewArtifact EXCEPT
                                  !._description = self._description,
                                  !._manifest = self._manifest]],
                   << >>, rootFiles)

Next ==
    \/ Construct
    \/ Load
    \/ finalize
    \/ add_file
    \/ add_dir
    \/ add_reference
    \/ new_file
    \/ add
    \/ set_aliases
    \/ read
    \/ save
    \/ wait
    \/ delete
    \/ get_path
    \/ get
    \/ download
    \/ checkout
    \/ verify
    \/ file
    \/ files
    \/ link
    \/ used_by
    \/ logged_by
    \/ json_encode
    \/ new_draft

Spec == Init /\ [][Next]_vars

(* ------------------------------------------------------------------ *)
(* Artifact.digest: the manifest's digest                              *)
(* ------------------------------------------------------------------ *)

\* the model's paths in the order Python compares strings
PathOrder == << "a", "a.table.json", "b", "b.table.json", "c", "junk" >>

PathRank(p) == CHOOSE i \in 1 .. Len(PathOrder) : PathOrder[i] = p

\* sorted(...): insertion of x into a sorted sequence, then the sort itself
RECURSIVE insert_sorted(_, _)
insert_sorted(x, s) ==
    IF s = << >> THEN << x >>
    ELSE IF PathRank(x) <= PathRank(Head(s)) THEN << x >> \o s
    ELSE << Head(s) >> \o insert_sorted(x, Tail(s))

RECURSIVE sorted(_)
sorted(s) == IF s = << >> THEN << >> ELSE insert_sorted(Head(s), sorted(Tail(s)))

\* the hasher's input, entry by entry in the order the dict is walked: "name:digest"
hashed(m, ord) == [i \in 1 .. Len(ord) |-> << ord[i], m[ord[i]].digest >>]

\* a manifest digest that hashes the entries in the order the dict holds them
manifest_digest_unsorted(m, ord) == hashed(m, ord)

\* ArtifactManifestV1.digest(): the entries are hashed sorted by path
manifest_digest(m, ord) == hashed(m, sorted(ord))

\* every order a dict can hold the keys S in
RECURSIVE Orders(_)
Orders(S) ==
    IF S = {} THEN {<< >>}
    ELSE UNION {{<< x >> \o o : o \in Orders(S \ {x})} : x \in S}

\* some order of the keys of m, for a manifest whose dict order is not tracked
AnOrder(m) == CHOOSE o \in Orders(DOMAIN m) : TRUE

\* Artifact.digest of artifact a
digest_of(a) == manifest_digest(a._manifest, AnOrder(a._manifest))

(* ------------------------------------------------------------------ *)
(* Two artifacts committed to one collection                           *)
(* ------------------------------------------------------------------ *)

\* the index of the version of the collection c that has digest d
VersionOf(c, d) == CHOOSE i \in 1 .. Len(c) : c[i] = d

\* the service's answer to a submission of digest d to the collection c: the
\* existing version when one has the digest, else a new one
ingest(c, d) == IF \E i \in 1 .. Len(c) : c[i] = d THEN c ELSE Append(c, d)

InitCommit ==
    /\ origin = "ctor"
    /\ \E m \in ManifestsOver(FewNames) : self = [NewArtifact EXCEPT !._manifest = m]
    /\ \E m \in ManifestsOver(FewNames) : other = [NewArtifact EXCEPT !._manifest = m]
    /\ lastOp = "Artifact"
    /\ result = Return(None)
    /\ sent = << >>
    /\ logCalls = 0
    /\ rootFiles = {}
    /\ tmpFiles = {}
    /\ disk = FewNames
    /\ lastSynced = {}
    /\ order = << >>
    /\ pool = NoPool
    /\ collection = << >>
    /\ adds = << >>
    /\ NoLookups
    /\ NoLater

\* what the calls of this specification never change
CommitFrame ==
    UNCHANGED << origin, rootFiles, tmpFiles, disk, lastSynced, order, pool, adds,
                 lookupVars, laterVars >>

\* the caller turns to its other artifact
turn ==
    /\ self' = other
    /\ other' = self
    /\ UNCHANGED << lastOp, result, sent, logCalls, collection >>
    /\ CommitFrame

\* self.save() in a run, on a Draft: run.log_artifact(self)
save_in_run ==
    /\ self._state = PENDING
    /\ logCalls < MaxLogCalls
    /\ logCalls' = logCalls + 1
    /\ self' = log_artifact(self)
    /\ lastOp' = "save"
    /\ result' = Return(None)
    /\ sent' = << >>
    /\ UNCHANGED << other, collection >>
    /\ CommitFrame

\* self.wait() on a Draft whose save was started: the service has put the
\* submission into the collection and answers with the version it has
wait_committed ==
    /\ self._state = PENDING
    /\ self._save_future
    /\ Len(ingest(collection, digest_of(self))) <= MaxVersionIndex + 1
    /\ collection' = ingest(collection, digest_of(self))
    /\ self' = _populate_after_save(COMMITTED,
                                     VersionOf(collection', digest_of(self)) - 1,
                                     {"latest"}, TRUE)
    /\ lastOp' = "wait"
    /\ result' = Return(None)
    /\ sent' = << Req("ArtifactByID", None, None, FALSE, "ok") >>
    /\ UNCHANGED << other, logCalls >>
    /\ CommitFrame

\* an add_file on a Draft that changes the content
add_file_content ==
    /\ self._state = PENDING
    /\ ~_ensure_can_add
    /\ \E n \in disk, d \in Digests : _add_local_file("add_file", n, d)
    /\ UNCHANGED << other, collection >>
    /\ UNCHANGED << rootFiles, tmpFiles, disk, order, pool, adds, lookupVars, laterVars >>

\* wait(timeout) calls that time out, followed in a run of this specification
MaxTimeouts == 1

\* a wait that gives the save up when its timeout passes
timed_out_cancelled(a) == [a EXCEPT !._save_future = FALSE]

\* what wait(timeout) leaves of the artifact a when self._save_future.get(timeout)
\* returns nothing: WaitTimeoutError is raised before any field is assigned
timed_out(a) == a

\* self.wait(timeout) on a Draft whose save was started and has no result yet
wait_timeout ==
    /\ self._state = PENDING
    /\ self._save_future
    /\ timeouts < MaxTimeouts
    /\ timeouts' = timeouts + 1
    /\ self' = timed_out(self)
    /\ lastOp' = "wait"
    /\ result' = Raise("WaitTimeoutError")
    /\ sent' = << >>
    /\ UNCHANGED << other, logCalls, collection >>
    /\ UNCHANGED << origin, rootFiles, tmpFiles, disk, lastSynced, order, pool, adds,
                    lookupVars, fetch, root, since, stage, lastVars >>

NextCommit ==
    \/ turn
    \/ add_file_content
    \/ save_in_run
    \/ wait_committed
    \/ wait_timeout

SpecCommit == InitCommit /\ [][NextCommit]_vars

(* ------------------------------------------------------------------ *)
(* add_file, add_dir and download with their worker pools, step by step *)
(* ------------------------------------------------------------------ *)

\* add_file calls followed in a run of this specification
MaxAdds == 2

\* the files a directory may hold
DirNames == {"a", "b", "c"}

InitDir ==
    /\ origin = "ctor"
    /\ self = NewArtifact
    /\ lastOp = "Artifact"
    /\ result = Return(None)
    /\ sent = << >>
    /\ logCalls = 0
    /\ rootFiles = {}
    /\ tmpFiles = {}
    /\ disk = Names
    /\ lastSynced = {}
    /\ order = << >>
    /\ pool = NoPool
    /\ other = NewArtifact
    /\ collection = << >>
    /\ adds = << >>
    /\ NoLookups
    /\ NoLater

\* what the calls of this specification never change
DirFrame ==
    UNCHANGED << origin, sent, logCalls, tmpFiles, disk, lastSynced, other, collection,
                 lookupVars, laterVars >>

\* no call is in progress
Idle == pool.phase # "map"

\* the dict keeps the place of a key it has and puts a new key last
inserted(ord, p) == IF \E i \in 1 .. Len(ord) : ord[i] = p THEN ord ELSE Append(ord, p)

\* add_file(local_path, name) on an existing file whose bytes hash to d
add_file_again ==
    /\ Idle
    /\ Len(adds) < MaxAdds
    /\ IF _ensure_can_add
       THEN /\ lastOp' = "add_file"
            /\ result' = Raise("ArtifactFinalizedError")
            /\ UNCHANGED << self, order, adds >>
       ELSE \E n \in disk, d \in Digests :
                /\ _add_local_file("add_file", n, d)
                /\ order' = IF result'.kind = "return" THEN inserted(order, n) ELSE order
                /\ adds' = IF result'.kind = "return" THEN Append(adds, result'.value) ELSE adds
    /\ UNCHANGED << rootFiles, pool >>
    /\ DirFrame

\* the pool a call creates: its threads start at once
NewPool(op, fs, unreadable) ==
    [ op |-> op, phase |-> "map", files |-> fs, unreadable |-> unreadable,
      todo |-> DOMAIN fs, running |-> {}, failed |-> {}, workers |-> "alive",
      before |-> self._manifest ]

\* add_dir(local_path) up to pool.map: the checks, the walk that lists the
\* files (name -> digest of the bytes; some may have become unreadable), the pool
add_dir_walk ==
    /\ pool.phase = "idle"
    /\ lastOp' = "add_dir"
    /\ UNCHANGED << self, order, rootFiles, adds >>
    /\ DirFrame
    /\ IF _ensure_can_add
       THEN result' = Raise("ArtifactFinalizedError") /\ UNCHANGED pool
       ELSE \E isdir \in BOOLEAN, S \in SUBSET DirNames :
            \E fs \in [S -> Digests], unreadable \in SUBSET S :
                IF ~isdir
                THEN result' = Raise("ValueError") /\ UNCHANGED pool
                ELSE /\ Cardinality(unreadable) <= 1
                     /\ result' = Return(None)
                     /\ pool' = NewPool("add_dir", fs, unreadable)

\* a task whose function raised, or ended, leaves the others to run: the map's
\* result is ready only when every task is done
finished(n, ok) ==
    [pool EXCEPT !.todo = @ \ {n}, !.failed = IF ok THEN @ ELSE @ \cup {n}]

\* an entry stored under the name of another one, by the count of the entries
entry_path_by_arrival(n, m) == PathOrder[Cardinality(DOMAIN m) + 1]

\* ArtifactManifestEntry(path=name, ...): the entry's key is its logical path
entry_path(n, m) == n

\* add_manifest_file((logical_path, physical_path)) in a worker thread:
\* _add_local_file copies the file into the staging area and adds the entry
add_manifest_file ==
    /\ pool.phase = "map"
    /\ pool.op = "add_dir"
    /\ \E n \in pool.todo :
        LET p == entry_path(n, self._manifest)
            e == Entry(pool.files[n], FALSE)
        IN  IF n \in pool.unreadable \/ add_entry_conflict(self._manifest, p, e)
            THEN /\ pool' = finished(n, FALSE)
                 /\ UNCHANGED << self, order >>
            ELSE /\ pool' = finished(n, TRUE)
                 /\ self' = [self EXCEPT !._manifest = add_entry(self._manifest, p, e)]
                 /\ order' = inserted(order, p)
    /\ UNCHANGED << lastOp, result, rootFiles, adds >>
    /\ DirFrame

\* pool.map(...); pool.close(); pool.join(): the map returns, and the two
\* calls after it are made, or it raises what a task raised
map_close_join ==
    /\ pool.todo = {}
    /\ IF pool.failed = {}
       THEN /\ result' = Return(None)
            /\ pool' = [pool EXCEPT !.phase = "done", !.workers = "joined"]
       ELSE /\ result' = Raise("Exception")
            /\ pool' = [pool EXCEPT !.phase = "done"]
    /\ UNCHANGED << self, order, rootFiles, adds >>
    /\ DirFrame

\* the rest of add_dir
add_dir_return ==
    /\ pool.phase = "map"
    /\ pool.op = "add_dir"
    /\ lastOp' = "add_dir"
    /\ map_close_join

\* save() and wait(): the artifact is committed as version v0
logged ==
    /\ Idle
    /\ self._state = PENDING
    /\ self' = [_populate_after_save(COMMITTED, 0, {"latest"}, TRUE) EXCEPT
                    !._final = TRUE, !._save_future = TRUE, !._client = TRUE]
    /\ lastOp' = "wait"
    /\ result' = Return(None)
    /\ UNCHANGED << order, pool, rootFiles, adds >>
    /\ DirFrame

\* download(root) up to pool.map; some of the fetches are going to fail
download_start ==
    /\ Idle
    /\ pool.op # "download"
    /\ lastOp' = "download"
    /\ UNCHANGED << self, order, rootFiles, adds >>
    /\ DirFrame
    /\ IF self._state = PENDING
       THEN result' = Raise("ArtifactNotLoggedError") /\ UNCHANGED pool
       ELSE \E unreadable \in SUBSET DOMAIN self._manifest :
                /\ Cardinality(unreadable) <= 1
                /\ result' = Return(None)
                /\ pool' = NewPool("download",
                                    [n \in DOMAIN self._manifest |-> self._manifest[n].digest],
                                    unreadable)

\* _download_file(name) in a worker thread: get_path(name).download(root)
_download_file ==
    /\ pool.phase = "map"
    /\ pool.op = "download"
    /\ \E n \in pool.todo :
        IF n \in pool.unreadable
        THEN pool' = finished(n, FALSE) /\ UNCHANGED rootFiles
        ELSE pool' = finished(n, TRUE) /\ rootFiles' = rootFiles \cup {n}
    /\ UNCHANGED << self, order, lastOp, result, adds >>
    /\ DirFrame

\* the rest of download (no dependent artifacts: the manifest has no references)
download_return ==
    /\ pool.phase = "map"
    /\ pool.op = "download"
    /\ lastOp' = "download"
    /\ map_close_join

NextDir ==
    \/ add_file_again
    \/ add_dir_walk
    \/ add_manifest_file
    \/ add_dir_return
    \/ logged
    \/ download_start
    \/ _download_file
    \/ download_return

SpecDir == InitDir /\ [][NextDir]_vars

(* ------------------------------------------------------------------ *)
(* Lookups by server id, and references to entries of other artifacts   *)
(* ------------------------------------------------------------------ *)

\* lookups followed in a run of this specification
MaxLookups == 3

\* an entry of a manifest of the service: a file, or a reference to the entry
\* `path` of the artifact `id` (ref = wandb-artifact://id/path)
File(d) == [digest |-> d, ref |-> None]

Ref(d, i, p) == [digest |-> d, ref |-> Some([id |-> i, path |-> p])]

\* the manifests of the artifacts of the service: A holds a file, B refers to
\* it, C refers to B's reference
Catalog ==
    [i \in Ids |->
        CASE i = "A" -> [x \in {"p"} |-> File("d1")]
          [] i = "B" -> [x \in {"q"} |-> Ref("d1", "A", "p")]
          [] i = "C" -> [x \in {"r"} |-> Ref("d1", "B", "q")]]

\* the URIs that name an entry of an artifact of the service
ArtifactURIs == {[id |-> i, path |-> x] : i \in Ids, x \in {"p", "q", "r"}} \cap
                UNION {{[id |-> i, path |-> x] : x \in DOMAIN Catalog[i]} : i \in Ids}

\* entry._is_artifact_reference()
_is_artifact_reference(entry) == entry.ref # None

\* _load_manifest(url), called by from_attrs: the manifest is fetched and, for
\* each entry that refers to another artifact, `self.client` is read, an
\* attribute the class does not have
_load_manifest(i) ==
    IF \E x \in DOMAIN Catalog[i] : _is_artifact_reference(Catalog[i][x])
    THEN Raise("AttributeError")
    ELSE Return(None)

\* target_artifact._load_manifest(), called by store_path without the url the
\* method requires
_load_manifest_without_url == Raise("TypeError")

LookupFrame ==
    UNCHANGED << origin, logCalls, rootFiles, tmpFiles, disk, lastSynced, order, pool,
                 other, collection, adds, laterVars >>

InitLookup ==
    /\ origin = "ctor"
    /\ self = NewArtifact
    /\ lastOp = "Artifact"
    /\ result = Return(None)
    /\ sent = << >>
    /\ logCalls = 0
    /\ rootFiles = {}
    /\ tmpFiles = {}
    /\ disk = FewNames
    /\ lastSynced = {}
    /\ order = << >>
    /\ pool = NoPool
    /\ other = NewArtifact
    /\ collection = << >>
    /\ adds = << >>
    /\ NoLookups
    /\ NoLater

\* from_attrs for the artifact of id i: a new object; when its manifest loads,
\* the cache stores the object under the id and the caller gets it
built(op, i) ==
    /\ lastOp' = op
    /\ sent' = << Req("ArtifactByID", None, None, FALSE, "ok") >>
    /\ objects' = objects + 1
    /\ result' = IF _load_manifest(i).kind = "raise" THEN _load_manifest(i)
                  ELSE Return(objects + 1)
    /\ cache' = IF _load_manifest(i).kind = "raise" THEN cache
                 ELSE [cache EXCEPT ![i] = objects + 1]
    /\ lookups' = IF _load_manifest(i).kind = "raise" THEN lookups
                   ELSE Append(lookups, [id |-> i, obj |-> objects + 1])

\* Artifact.from_id, first half, in a thread: the cache is asked; a hit is returned
from_id_cached ==
    \E t \in Threads, i \in Ids :
        /\ threads[t] = "idle"
        /\ Len(lookups) < MaxLookups
        /\ objects < MaxLookups
        /\ IF cache[i] # 0
           THEN /\ lastOp' = "from_id"
                /\ result' = Return(cache[i])
                /\ sent' = << >>
                /\ lookups' = Append(lookups, [id |-> i, obj |-> cache[i]])
                /\ UNCHANGED threads
           ELSE /\ threads' = [threads EXCEPT ![t] = i]
                /\ UNCHANGED << lastOp, result, sent, lookups >>
        /\ UNCHANGED << self, cache, objects, uri >>
        /\ LookupFrame

\* Artifact.from_id, second half: the query, then from_attrs
from_id_query ==
    \E t \in Threads :
        /\ threads[t] # "idle"
        /\ Len(lookups) < MaxLookups
        /\ objects < MaxLookups
        /\ threads' = [threads EXCEPT ![t] = "idle"]
        /\ built("from_id", threads[t])
        /\ UNCHANGED << self, uri >>
        /\ LookupFrame

\* Artifact.from_name: the query, then from_attrs; the cache is not asked
from_name ==
    \E i \in Ids :
        /\ Len(lookups) < MaxLookups
        /\ objects < MaxLookups
        /\ built("from_name", i)
        /\ UNCHANGED << self, threads, uri >>
        /\ LookupFrame

\* WBArtifactHandler.store_path(artifact, path): the first pass of its loop.
\* from_id returns the cached object or builds one; _load_manifest() is then
\* called on it without its argument, so no pass of the loop ends
store_path(u) ==
    IF cache[u.id] # 0 THEN _load_manifest_without_url
    ELSE IF _load_manifest(u.id).kind = "raise" THEN _load_manifest(u.id)
    ELSE _load_manifest_without_url

\* self.add_reference("wandb-artifact://id/path") on a Draft: the storage
\* policy hands the URI to WBArtifactHandler.store_path; the entries it
\* returns would be added to the manifest
add_reference_artifact ==
    \E u \in ArtifactURIs :
        /\ objects < MaxLookups
        /\ lastOp' = "add_reference"
        /\ uri' = Some(u)
        /\ UNCHANGED << threads, lookups >>
        /\ LookupFrame
        /\ IF _ensure_can_add
           THEN /\ result' = Raise("ArtifactFinalizedError")
                /\ sent' = << >>
                /\ UNCHANGED << self, cache, objects >>
           ELSE /\ result' = store_path(u)
                /\ UNCHANGED self
                /\ IF cache[u.id] # 0
                   THEN sent' = << >> /\ UNCHANGED << cache, objects >>
                   ELSE /\ sent' = << Req("ArtifactByID", None, None, FALSE, "ok") >>
                        /\ objects' = objects + 1
                        /\ cache' = IF _load_manifest(u.id).kind = "raise" THEN cache
                                     ELSE [cache EXCEPT ![u.id] = objects + 1]

NextLookup ==
    \/ from_id_cached
    \/ from_id_query
    \/ from_name
    \/ add_reference_artifact

SpecLookup == InitLookup /\ [][NextLookup]_vars

(* ------------------------------------------------------------------ *)
(* Concurrent fetches of content through the content-fetch index       *)
(* ------------------------------------------------------------------ *)

\* worker threads of download calls that ask for content at the same time
MaxFetchWorkers == 3

FetchWorkers == 1 .. MaxFetchWorkers

\* a worker that has not taken an entry yet
IdleWorker == [at |-> "idle", digest |-> None, got |-> "nothing"]

\* a logged artifact with manifest m
LoggedWith(m) ==
    [NewArtifact EXCEPT !._state = COMMITTED, !._id = Some("id"),
                        !._version = Some("v0"), !._manifest = m]

InitFetch ==
    /\ origin = "loaded"
    /\ \E m \in ManifestsOver(Names) : self = LoggedWith(m)
    /\ lastOp = "from_attrs"
    /\ result = Return(None)
    /\ sent = << >>
    /\ logCalls = 0
    /\ rootFiles = {}
    /\ tmpFiles = {}
    /\ disk = Names
    /\ lastSynced = {}
    /\ order = << >>
    /\ pool = NoPool
    /\ other = NewArtifact
    /\ collection = << >>
    /\ adds = << >>
    /\ NoLookups
    /\ timeouts = 0
    /\ fetch = [NoFetch EXCEPT !.worker = [t \in FetchWorkers |-> IdleWorker]]
    /\ root = << >>
    /\ since = NoDownload
    /\ stage = NoStage
    /\ NoLast

\* what the workers never change
FetchFrame ==
    UNCHANGED << origin, self, lastOp, result, sent, logCalls, rootFiles, tmpFiles, disk,
                 lastSynced, order, pool, other, collection, adds, lookupVars,
                 timeouts, root, since, stage, lastVars >>

\* an index that registers a fetch only when it is done
must_fetch_unless_done(ix, d) == ix[d] # "done"

\* the content-fetch index starts a transfer for digest d only when it has
\* neither the content nor a transfer of it in flight
must_fetch(ix, d) == ix[d] = "none"

\* _download_file(name) in a worker: get_path(name).download(root) asks for the
\* content of the entry's digest
fetch_ask ==
    /\ \E t \in FetchWorkers, n \in DOMAIN self._manifest :
           LET d == self._manifest[n].digest IN
           /\ fetch.worker[t].at = "idle"
           /\ IF must_fetch(fetch.index, d)
              THEN fetch' = [fetch EXCEPT
                       !.index[d] = "fetching",
                       !.count[d] = @ + 1,
                       !.worker[t] = [at |-> "fetching", digest |-> Some(d),
                                      got |-> "nothing"]]
              ELSE IF fetch.index[d] = "fetching"
              THEN fetch' = [fetch EXCEPT
                       !.worker[t] = [at |-> "waiting", digest |-> Some(d),
                                      got |-> "nothing"]]
              ELSE fetch' = [fetch EXCEPT
                       !.worker[t] = [at |-> "done", digest |-> Some(d),
                                      got |-> "cached"]]
    /\ FetchFrame

\* the transfer a worker started ends: the content is in the cache
fetch_done ==
    /\ \E t \in FetchWorkers :
           /\ fetch.worker[t].at = "fetching"
           /\ fetch' = [fetch EXCEPT
                  !.index[fetch.worker[t].digest[1]] = "done",
                  !.worker[t].at = "done",
                  !.worker[t].got = "fetched"]
    /\ FetchFrame

\* a worker that waited on a transfer takes its result
fetch_reuse ==
    /\ \E t \in FetchWorkers :
           /\ fetch.worker[t].at = "waiting"
           /\ fetch.index[fetch.worker[t].digest[1]] = "done"
           /\ fetch' = [fetch EXCEPT
                  !.worker[t].at = "done",
                  !.worker[t].got = "waited"]
    /\ FetchFrame

NextFetch ==
    \/ fetch_ask
    \/ fetch_done
    \/ fetch_reuse

SpecFetch == InitFetch /\ [][NextFetch]_vars

(* ------------------------------------------------------------------ *)
(* download, checkout and verify on the files of a download root       *)
(* ------------------------------------------------------------------ *)

\* an entry with its size; a reference may have none
Sized(d, r, sz) == [digest |-> d, ref |-> r, size |-> sz]

\* the entries of the manifests of this specification: a file, a reference of
\* known size and a reference of unknown size
SizedEntries ==
    {Sized("d1", FALSE, Some(1))}
        \cup {Sized(d, TRUE, sz) : d \in RefDigests, sz \in {Some(1), None}}

\* the paths of those manifests: a name and the name of a typed object
SizedPaths == {"a", with_suffix("a")}

SizedManifests == UNION {[S -> SizedEntries] : S \in SUBSET SizedPaths}

\* relative paths of the files that may lie under the root
RootFileNames == SizedPaths \cup {"junk"}

\* the bytes the caller writes to files under the root: those of the file
\* entry and others
RootBytes == {"d1", "x"}

\* an exception whose message names a file
RaiseAbout(e, what, f) == [kind |-> "raise", exc |-> e, what |-> what, file |-> f]

InitRoot ==
    /\ origin = "loaded"
    /\ \E m \in SizedManifests : self = LoggedWith(m)
    /\ lastOp = "from_attrs"
    /\ result = Return(None)
    /\ sent = << >>
    /\ logCalls = 0
    /\ rootFiles = {}
    /\ tmpFiles = {}
    /\ disk = Names
    /\ lastSynced = {}
    /\ order = << >>
    /\ pool = NoPool
    /\ other = NewArtifact
    /\ collection = << >>
    /\ adds = << >>
    /\ NoLookups
    /\ NoLater

\* what the calls of this specification never change
RootFrame ==
    UNCHANGED << origin, self, sent, logCalls, rootFiles, tmpFiles, disk, lastSynced,
                 order, pool, other, collection, adds, lookupVars, timeouts, fetch,
                 stage, lastVars >>

\* the caller writes bytes c to the file f under the root
write_under_root ==
    /\ \E f \in RootFileNames, c \in RootBytes :
           /\ root' = [g \in DOMAIN root \cup {f} |-> IF g = f THEN c ELSE root[g]]
           /\ since' = [since EXCEPT !.written = @ \cup {f}]
    /\ lastOp' = "write"
    /\ result' = Return(None)
    /\ RootFrame

\* the bytes entry.download(root) puts at the entry's path: a file's bytes hash
\* to its digest; what a reference points to hashes to anything
fetched(entry) == IF entry.ref THEN "x" ELSE entry.digest

\* a download that makes the root equal to the artifact
materialised_clean(r, m) == [f \in DOMAIN m |-> fetched(m[f])]

\* the root r after _download_file has run for every entry of m: each entry's
\* file is written, nothing else is touched
materialised(r, m) ==
    [f \in DOMAIN r \cup DOMAIN m |-> IF f \in DOMAIN m THEN fetched(m[f]) ELSE r[f]]

\* sum(e.size for e in entries): int + None raises TypeError
size_sum_fails(m) == \E q \in DOMAIN m : m[q].size = None

\* the body of download(root) on an artifact that is logged, from root r
downloading(r) ==
    IF size_sum_fails(self._manifest)
    THEN /\ root' = r
         /\ result' = Raise("TypeError")
         /\ since' = [since EXCEPT !.downloaded = FALSE]
    ELSE /\ root' = materialised(r, self._manifest)
         /\ result' = Return("root")
         /\ since' = [since EXCEPT !.downloaded = TRUE, !.written = {}]

\* download(root)
download_root ==
    /\ self._state # PENDING
    /\ lastOp' = "download"
    /\ downloading(root)
    /\ RootFrame

\* the files checkout keeps: those get_path finds an entry for
kept(r) == [f \in {g \in DOMAIN r : lookup(g) # None} |-> r[f]]

\* checkout(root): os.remove of every file get_path raises KeyError for, then
\* download(root)
checkout_root ==
    /\ self._state # PENDING
    /\ lastOp' = "checkout"
    /\ downloading(kept(root))
    /\ RootFrame

\* verify that hashes the files of references too
checked_all(m) == DOMAIN m

\* the entries verify hashes: those with entry.ref is None
checked(m) == {q \in DOMAIN m : ~m[q].ref}

\* verify(root): a file get_path does not find fails it; then the file of each
\* checked entry is hashed and compared with the entry's digest
verify_root ==
    /\ self._state # PENDING
    /\ lastOp' = "verify"
    /\ IF \E f \in DOMAIN root : lookup(f) = None
       THEN \E f \in DOMAIN root :
                /\ lookup(f) = None
                /\ result' = RaiseAbout("ValueError", "Found file which is not a member", f)
       ELSE LET bad == {q \in checked(self._manifest) :
                            q \notin DOMAIN root \/ root[q] # self._manifest[q].digest}
            IN  IF bad = {}
                THEN result' = Return(None)
                ELSE \E q \in bad :
                         result' = IF q \notin DOMAIN root
                                   THEN RaiseAbout("FileNotFoundError", "No such file", q)
                                   ELSE RaiseAbout("ValueError", "Digest mismatch for file", q)
    /\ UNCHANGED << root, since >>
    /\ RootFrame

\* get_path(name)
get_path_name ==
    /\ self._state # PENDING
    /\ \E n \in RootFileNames :
           /\ lastOp' = "get_path"
           /\ since' = [since EXCEPT !.asked = Some(n)]
           /\ result' = IF lookup(n) = None
                        THEN RaiseAbout("KeyError", "Path not contained in artifact", n)
                        ELSE Return([path |-> lookup(n)[1],
                                     entry |-> self._manifest[lookup(n)[1]]])
    /\ UNCHANGED root
    /\ RootFrame

NextRoot ==
    \/ write_under_root
    \/ download_root
    \/ checkout_root
    \/ verify_root
    \/ get_path_name

SpecRoot == InitRoot /\ [][NextRoot]_vars

(* ------------------------------------------------------------------ *)
(* Source files and the staging copies of add_file and add_dir         *)
(* ------------------------------------------------------------------ *)

\* staging files made in a run of this specification
MaxStaged == 3

\* the caller's file for the name n
SourceFile(n) ==
    CASE n = "a" -> "src/a"
      [] n = "b" -> "src/b"
      [] OTHER -> "src/c"

\* tempfile.NamedTemporaryFile(dir=get_staging_dir()): a new name each time
StagingFiles ==
    << "staging/1", "staging/2", "staging/3", "staging/4", "staging/5", "staging/6" >>

InitStage ==
    /\ origin = "ctor"
    /\ self = NewArtifact
    /\ lastOp = "Artifact"
    /\ result = Return(None)
    /\ sent = << >>
    /\ logCalls = 0
    /\ rootFiles = {}
    /\ tmpFiles = {}
    /\ disk = Names
    /\ lastSynced = {}
    /\ order = << >>
    /\ pool = NoPool
    /\ other = NewArtifact
    /\ collection = << >>
    /\ adds = << >>
    /\ NoLookups
    /\ NoLater

\* what the calls of this specification never change
StageFrame ==
    UNCHANGED << rootFiles, tmpFiles, disk, order, pool, other, collection, adds,
                 lookupVars, timeouts, fetch, root, since, lastVars >>

\* the frame of a change the caller makes to its own files
SourceChanged(op) ==
    /\ lastOp' = op
    /\ result' = Return(None)
    /\ UNCHANGED << origin, self, sent, logCalls, lastSynced >>
    /\ StageFrame

\* the files fs with bytes c in file f
written(fs, f, c) == [g \in DOMAIN fs \cup {f} |-> IF g = f THEN c ELSE fs[g]]

\* the caller writes bytes to one of its files
write_source ==
    /\ \E n \in disk, c \in Digests :
           stage' = [stage EXCEPT !.files = written(@, SourceFile(n), c)]
    /\ SourceChanged("write")

\* the caller deletes one of its files
delete_source ==
    /\ \E n \in disk :
           /\ SourceFile(n) \in DOMAIN stage.files
           /\ stage' = [stage EXCEPT
                  !.files = [g \in DOMAIN @ \ {SourceFile(n)} |-> @[g]]]
    /\ SourceChanged("delete")

\* an entry that keeps the path of the source file as its local_path
staging_path_in_place(n, k) == SourceFile(n)

\* the file the entry's local_path names: the k-th staging file, which
\* shutil.copyfile fills from the source
staging_path(n, k) == StagingFiles[k]

\* the staging of _add_local_file(name, path, digest): the copy is made from
\* what the source holds now and made read-only; the entry, of digest d, keeps
\* it when add_entry accepts the entry
staged(n, d) ==
    LET at == staging_path(n, stage.made + 1)
        bytes == stage.files[SourceFile(n)]
    IN  [ files |-> written(stage.files, at, bytes),
          made |-> stage.made + 1,
          local_path |->
              IF add_entry_conflict(self._manifest, n, Entry(d, FALSE))
              THEN stage.local_path
              ELSE written(stage.local_path, n, at),
          pending |-> None ]

\* add_file(local_path, name) up to `digest = md5_file_b64(local_path)`: the
\* source is checked and hashed
add_file_hashed ==
    /\ ~_ensure_can_add
    /\ stage.pending = None
    /\ stage.made < MaxStaged
    /\ \E n \in disk :
           IF SourceFile(n) \notin DOMAIN stage.files
           THEN /\ Added("add_file", self._manifest, Raise("ValueError"))
                /\ UNCHANGED stage
           ELSE /\ stage' = [stage EXCEPT
                       !.pending = Some([name |-> n, digest |-> stage.files[SourceFile(n)]])]
                /\ UNCHANGED << origin, self, lastOp, result, sent, logCalls, lastSynced >>
    /\ StageFrame

\* add_file from there: _add_local_file(name, local_path, digest=digest) copies
\* the source as it is now and records the entry with the digest taken before
add_file_staged ==
    /\ stage.pending # None
    /\ LET n == stage.pending[1].name
           d == stage.pending[1].digest
       IN  IF SourceFile(n) \notin DOMAIN stage.files
           THEN /\ Added("add_file", self._manifest, Raise("FileNotFoundError"))
                /\ stage' = [stage EXCEPT
                       !.pending = None,
                       !.made = @ + 1,
                       !.files = written(@, staging_path(n, stage.made + 1), "empty")]
           ELSE /\ _add_local_file("add_file", n, d)
                /\ stage' = staged(n, d)
    /\ StageFrame

\* add_dir(local_path) of a directory that holds one source file: the digest
\* is taken from the staging copy
add_dir_staged ==
    /\ ~_ensure_can_add
    /\ stage.pending = None
    /\ stage.made < MaxStaged
    /\ \E n \in disk :
           /\ SourceFile(n) \in DOMAIN stage.files
           /\ LET d == stage.files[SourceFile(n)] IN
              /\ IF add_entry_conflict(self._manifest, n, Entry(d, FALSE))
                 THEN Added("add_dir", self._manifest, Raise("ValueError"))
                 ELSE Added("add_dir", add_entry(self._manifest, n, Entry(d, FALSE)),
                            Return(None))
              /\ stage' = staged(n, d)
    /\ StageFrame

NextStage ==
    \/ write_source
    \/ delete_source
    \/ add_file_hashed
    \/ add_file_staged
    \/ add_dir_staged

SpecStage == InitStage /\ [][NextStage]_vars

(* ------------------------------------------------------------------ *)
(* new_draft and the metadata dict: SpecDraft                          *)
(* ------------------------------------------------------------------ *)

\* keys and values of the metadata
MetaKeys == {"k"}

MetaVals == {"v1", "v2"}

\* the contents a metadata dict can have
MetaDicts == UNION {[K -> MetaVals] : K \in SUBSET MetaKeys}

\* bound: how many dict objects the calls create
MaxDicts == 3

\* _normalize_metadata(metadata): a new dict object that holds the JSON round
\* trip of metadata; the heap with it, the new object last
_normalize_metadata(heap, md) == Append(heap, md)

\* manifest.to_manifest_json(): the document of the entries
to_manifest_json(m) ==
    {[path |-> p, digest |-> m[p].digest, ref |-> m[p].ref] : p \in DOMAIN m}

\* ArtifactManifest.from_manifest_json(doc): a new manifest of the document's entries
from_manifest_json(doc) ==
    [p \in {e.path : e \in doc} |->
        LET e == CHOOSE x \in doc : x.path = p IN Entry(e.digest, e.ref)]

\* a loaded artifact with its metadata dict
InitDraft ==
    /\ origin = "loaded"
    /\ \E m \in ManifestsOver(Names), d \in Descriptions :
           self = [LoggedWith(m) EXCEPT !._description = d]
    /\ \E md \in MetaDicts :
           draft = [NoDraft EXCEPT !.heap = _normalize_metadata(<< >>, md), !.of_self = 1]
    /\ lastOp = "from_attrs"
    /\ result = Return(None)
    /\ sent = << >>
    /\ logCalls = 0
    /\ rootFiles = {}
    /\ tmpFiles = {}
    /\ disk = Names
    /\ lastSynced = {}
    /\ order = << >>
    /\ pool = NoPool
    /\ other = NewArtifact
    /\ collection = << >>
    /\ adds = << >>
    /\ NoLookups
    /\ timeouts = 0
    /\ fetch = NoFetch
    /\ root = << >>
    /\ since = NoDownload
    /\ stage = NoStage
    /\ fsm = NoFsm
    /\ agent = NoAgent

\* what the calls of this specification never change
DraftFrame ==
    UNCHANGED << origin, self, sent, logCalls, rootFiles, tmpFiles, disk, lastSynced,
                 order, pool, other, collection, adds, lookupVars, timeouts, fetch,
                 root, since, stage, fsm, agent >>

\* new_draft(): a new Artifact whose _description is this one's, whose
\* _metadata is the object self.metadata returns, and whose manifest is rebuilt
\* from this one's document
new_draft_of_self ==
    /\ draft.copy = None
    /\ IF self._state = PENDING
       THEN /\ result' = Raise("ArtifactNotLoggedError")
            /\ UNCHANGED draft
       ELSE /\ result' = Return(None)
            /\ draft' = [draft EXCEPT !.copy = Some(
                   [ artifact |-> [NewArtifact EXCEPT
                         !._description = self._description,
                         !._manifest = from_manifest_json(to_manifest_json(self._manifest))],
                     _metadata |-> draft.of_self ])]
    /\ lastOp' = "new_draft"
    /\ DraftFrame

\* draft.metadata[k] = v: the getter returns the dict, which the caller writes
draft_metadata_item ==
    /\ draft.copy # None
    /\ \E k \in MetaKeys, v \in MetaVals :
           draft' = [draft EXCEPT !.heap[draft.copy[1]._metadata] = written(@, k, v)]
    /\ lastOp' = "draft.metadata[k]"
    /\ result' = Return(None)
    /\ DraftFrame

\* draft.metadata = md: the setter stores a normalised copy
draft_metadata_set ==
    /\ draft.copy # None
    /\ Len(draft.heap) < MaxDicts
    /\ \E md \in MetaDicts :
           draft' = [draft EXCEPT !.heap = _normalize_metadata(@, md),
                                  !.copy[1]._metadata = Len(draft.heap) + 1]
    /\ lastOp' = "draft.metadata"
    /\ result' = Return(None)
    /\ DraftFrame

\* self.metadata = md, on the artifact the draft was made of
self_metadata_set ==
    /\ Len(draft.heap) < MaxDicts
    /\ \E md \in MetaDicts :
           draft' = [draft EXCEPT !.heap = _normalize_metadata(@, md),
                                  !.of_self = Len(draft.heap) + 1]
    /\ lastOp' = "metadata"
    /\ result' = Return(None)
    /\ DraftFrame

\* draft.add_file(...): an entry joins the draft's manifest
draft_add_file ==
    /\ draft.copy # None
    /\ \E n \in disk, d \in Digests :
           LET m == draft.copy[1].artifact._manifest IN
           IF add_entry_conflict(m, n, Entry(d, FALSE))
           THEN /\ result' = Raise("ValueError")
                /\ UNCHANGED draft
           ELSE /\ result' = Return(None)
                /\ draft' = [draft EXCEPT !.copy[1].artifact._manifest =
                                             add_entry(m, n, Entry(d, FALSE))]
    /\ lastOp' = "draft.add_file"
    /\ DraftFrame

NextDraft ==
    \/ new_draft_of_self
    \/ draft_metadata_item
    \/ draft_metadata_set
    \/ self_metadata_set
    \/ draft_add_file

SpecDraft == InitDraft /\ [][NextDraft]_vars

(* ------------------------------------------------------------------ *)
(* The state machine (Fsm): SpecFsm                                    *)
(* ------------------------------------------------------------------ *)

\* bound: how many input calls a run makes
MaxInputs == 3

\* the state classes; the instances passed to Fsm(states, table), in order
FsmStates == << "A", "B", "D" >>

\* self._state_dict: the state types that have an instance
_state_dict == {FsmStates[i] : i \in 1 .. Len(FsmStates)}

\* the classes that implement on_exit, on_enter, on_state
FsmStateExit == {"A", "D"}

FsmStateEnter == {"A", "B"}

FsmStateOutput == {"A", "B"}

\* what an input can make true: entry.condition(inputs) is c \in inputs
FsmConditions == {"c1", "c2", "c3"}

FsmEntry(c, t, a) == [condition |-> c, target_state |-> t, action |-> a]

\* self._table: the entries of each state, in order; "C" has no instance
FsmTable ==
    [ A |-> << FsmEntry("c1", "B", TRUE), FsmEntry("c2", "A", FALSE),
               FsmEntry("c3", "C", TRUE) >>,
      B |-> << FsmEntry("c2", "D", TRUE), FsmEntry("c1", "A", FALSE),
               FsmEntry("c3", "C", TRUE) >>,
      D |-> << FsmEntry("c3", "A", TRUE), FsmEntry("c1", "C", FALSE) >> ]

\* one thing an input call did: a condition evaluated, a hook or an action
\* called, self._state assigned; at the state `at`, for the entry k of its row
FsmEvent(ev, at, k) == [ev |-> ev, at |-> at, k |-> k]

\* a loop that goes on to the last entry whose condition holds
selected_last(row, inputs) ==
    LET hits == {k \in 1 .. Len(row) : row[k].condition \in inputs}
    IN  IF hits = {} THEN 0 ELSE CHOOSE k \in hits : \A j \in hits : j <= k

\* _check_transitions: the entry the loop stops at, the first whose condition
\* holds; 0 when it runs to the end
selected(row, inputs) ==
    LET hits == {k \in 1 .. Len(row) : row[k].condition \in inputs}
    IN  IF hits = {} THEN 0 ELSE CHOOSE k \in hits : \A j \in hits : k <= j

\* a transition that enters the new state before the action runs
_transition_enter_first(s, k, entry) ==
    LET exit == IF s \in FsmStateExit THEN << FsmEvent("on_exit", s, k) >> ELSE << >>
        t == entry.target_state
    IN  IF t \notin _state_dict
        THEN [_state |-> s, log |-> exit, outcome |-> Raise("KeyError")]
        ELSE [_state |-> t,
              log |-> exit \o << FsmEvent("set", t, k) >>
                  \o (IF s # t /\ t \in FsmStateEnter
                      THEN << FsmEvent("on_enter", t, k) >> ELSE << >>)
                  \o (IF entry.action THEN << FsmEvent("action", t, k) >> ELSE << >>),
              outcome |-> Return(None)]

\* _transition(inputs, new_state, action) in the state s, for the entry k
_transition(s, k, entry) ==
    LET exit == IF s \in FsmStateExit THEN << FsmEvent("on_exit", s, k) >> ELSE << >>
        t == entry.target_state
    IN  IF t \notin _state_dict
        THEN [_state |-> s, log |-> exit, outcome |-> Raise("KeyError")]
        ELSE [_state |-> t,
              log |-> exit \o << FsmEvent("set", t, k) >>
                  \o (IF entry.action THEN << FsmEvent("action", t, k) >> ELSE << >>)
                  \o (IF s # t /\ t \in FsmStateEnter
                      THEN << FsmEvent("on_enter", t, k) >> ELSE << >>),
              outcome |-> Return(None)]

\* _check_transitions(inputs) in the state s
_check_transitions(s, inputs) ==
    LET row == FsmTable[s]
        k == selected(row, inputs)
        conditions == [j \in 1 .. (IF k = 0 THEN Len(row) ELSE k) |->
                          FsmEvent("condition", s, j)]
    IN  IF k = 0
        THEN [_state |-> s, log |-> conditions, outcome |-> Return(None)]
        ELSE LET t == _transition(s, k, row[k])
             IN  [t EXCEPT !.log = conditions \o @]

\* an input that reports the state it was called in
input_output_first(s, inputs) ==
    LET c == _check_transitions(s, inputs)
    IN  IF c.outcome = Return(None) /\ s \in FsmStateOutput
        THEN [c EXCEPT !.log = << FsmEvent("on_state", s, 0) >> \o @]
        ELSE c

\* input(inputs) in the state s: the state, what was done, and the outcome
input(s, inputs) ==
    LET c == _check_transitions(s, inputs)
    IN  IF c.outcome = Return(None) /\ c._state \in FsmStateOutput
        THEN [c EXCEPT !.log = @ \o << FsmEvent("on_state", c._state, 0) >>]
        ELSE c

\* Fsm(states, table): the current state is the instance of the first
InitFsm ==
    /\ origin = "none"
    /\ self = NewArtifact
    /\ lastOp = "Fsm"
    /\ result = Return(None)
    /\ sent = << >>
    /\ logCalls = 0
    /\ rootFiles = {}
    /\ tmpFiles = {}
    /\ disk = Names
    /\ lastSynced = {}
    /\ order = << >>
    /\ pool = NoPool
    /\ other = NewArtifact
    /\ collection = << >>
    /\ adds = << >>
    /\ NoLookups
    /\ timeouts = 0
    /\ fetch = NoFetch
    /\ root = << >>
    /\ since = NoDownload
    /\ stage = NoStage
    /\ draft = NoDraft
    /\ fsm = [NoFsm EXCEPT !._state = FsmStates[1]]
    /\ agent = NoAgent

\* fsm.input(inputs)
fsm_input ==
    /\ Len(fsm.calls) < MaxInputs
    /\ \E inputs \in SUBSET FsmConditions :
           LET r == input(fsm._state, inputs) IN
           /\ fsm' = [_state |-> r._state,
                      calls |-> Append(fsm.calls,
                                       [inputs |-> inputs, before |-> fsm._state,
                                        after |-> r._state, log |-> r.log,
                                        outcome |-> r.outcome])]
           /\ result' = r.outcome
    /\ lastOp' = "input"
    /\ UNCHANGED << origin, self, sent, logCalls, rootFiles, tmpFiles, disk, lastSynced,
                    order, pool, other, collection, adds, lookupVars, timeouts, fetch,
                    root, since, stage, draft, agent >>

NextFsm == fsm_input

SpecFsm == InitFsm /\ [][NextFsm]_vars

(* ------------------------------------------------------------------ *)
(* JupyterAgent: SpecAgent                                             *)
(* ------------------------------------------------------------------ *)

\* bound: how many start() and stop() calls a run makes
MaxAgentCalls == 6

\* what rm.init_run returns: the last step of a resumed run, 0 for none
NewSteps == {0, 1, 2}

\* a call made to the run manager rm, and what it returned
RmCall(rm, call, value) == [rm |-> rm, call |-> call, value |-> value]

InitAgent ==
    /\ origin = "none"
    /\ self = NewArtifact
    /\ lastOp = "JupyterAgent"
    /\ result = Return(None)
    /\ sent = << >>
    /\ logCalls = 0
    /\ rootFiles = {}
    /\ tmpFiles = {}
    /\ disk = Names
    /\ lastSynced = {}
    /\ order = << >>
    /\ pool = NoPool
    /\ other = NewArtifact
    /\ collection = << >>
    /\ adds = << >>
    /\ NoLookups
    /\ timeouts = 0
    /\ fetch = NoFetch
    /\ root = << >>
    /\ since = NoDownload
    /\ stage = NoStage
    /\ draft = NoDraft
    /\ fsm = NoFsm
    /\ agent = NoAgent

\* what start() and stop() never change
AgentFrame ==
    UNCHANGED << origin, self, sent, logCalls, rootFiles, tmpFiles, disk, lastSynced,
                 order, pool, other, collection, adds, lookupVars, timeouts, fetch,
                 root, since, stage, draft, fsm >>

\* start(), whatever self.paused is: a new RunManager, mirrored and initialised
start_body(new_step) ==
    LET rm == agent.rm + 1
    IN  [agent EXCEPT
            !.rm = rm,
            !.calls = @ \o << RmCall(rm, "RunManager", 0),
                              RmCall(rm, "mirror_stdout_stderr", 0),
                              RmCall(rm, "init_run", new_step) >>,
            !.paused = FALSE,
            !._steps = IF new_step # 0 THEN new_step + 1 ELSE @,
            !.made = @ + 1]

\* a start() without `if self.paused`
agent_start_unguarded ==
    /\ agent.made < MaxAgentCalls
    /\ \E new_step \in NewSteps : agent' = start_body(new_step)
    /\ lastOp' = "start"
    /\ result' = Return(None)
    /\ AgentFrame

\* start()
agent_start ==
    /\ agent.made < MaxAgentCalls
    /\ IF agent.paused
       THEN \E new_step \in NewSteps : agent' = start_body(new_step)
       ELSE agent' = [agent EXCEPT !.made = @ + 1]
    /\ lastOp' = "start"
    /\ result' = Return(None)
    /\ AgentFrame

\* stop()
agent_stop ==
    /\ agent.made < MaxAgentCalls
    /\ IF ~agent.paused
       THEN agent' = [agent EXCEPT
                !.calls = @ \o << RmCall(agent.rm, "unmirror_stdout_stderr", 0),
                                  RmCall(agent.rm, "shutdown", 0) >>,
                !.paused = TRUE,
                !.made = @ + 1]
       ELSE agent' = [agent EXCEPT !.made = @ + 1]
    /\ lastOp' = "stop"
    /\ result' = Return(None)
    /\ AgentFrame

NextAgent ==
    \/ agent_start
    \/ agent_stop

SpecAgent == InitAgent /\ [][NextAgent]_vars

(* ------------------------------------------------------------------ *)
(* Properties                                                          *)
(* ------------------------------------------------------------------ *)

Adders == {"add_file", "add_dir", "add_reference", "add", "new_file"}

LoggedOnly ==
    {"get_path", "get", "download", "checkout", "verify", "file", "files", "delete",
     "link", "used_by", "logged_by", "json_encode", "new_draft"}

\* C1: once final is set, every add_file, add_dir, add_reference, add and new_file
\* raises ArtifactFinalizedError and leaves the manifest as it was
C1_FinalRejectsAdds ==
    [][ (Live /\ self._final /\ lastOp' \in Adders)
        => (result' = Raise("ArtifactFinalizedError") /\ self'._manifest = self._manifest) ]_vars

\* a Draft on which finalize() was called, with an entry, whose add was refused
C1_Witness ==
    /\ origin = "ctor"
    /\ self._state = PENDING
    /\ ~self._save_future
    /\ self._final
    /\ DOMAIN self._manifest # {}
    /\ lastOp = "add_dir"
    /\ Raised("ArtifactFinalizedError")

\* C2: an artifact that is not a Draft, loaded or committed by save() and wait(),
\* refuses every add_file, add_dir, add_reference, add and new_file with
\* ArtifactFinalizedError
C2_NonDraftRejectsAdds ==
    [][ (Live /\ self._state # PENDING /\ lastOp' \in Adders)
        => result' = Raise("ArtifactFinalizedError") ]_vars

\* an artifact committed by save() and wait() whose add was refused
C2_Witness ==
    /\ origin = "ctor"
    /\ self._state = COMMITTED
    /\ lastOp = "add_reference"
    /\ Raised("ArtifactFinalizedError")

\* C3: a constructed artifact starts PENDING; an artifact that is not PENDING
\* never becomes PENDING again and a DELETED one never changes state
C3_StateOrder ==
    /\ [](lastOp = "Artifact" => self._state = PENDING)
    /\ [][ /\ self._state # PENDING => self'._state # PENDING
           /\ self._state = DELETED => self'._state = DELETED ]_vars

\* a second wait() on an artifact whose first wait() found it DELETED
C3_Witness ==
    /\ origin = "ctor"
    /\ self._state = DELETED
    /\ lastOp = "wait"
    /\ Returned
    /\ sent = << >>

\* C4: an accepted delete(delete_aliases=True) leaves the artifact DELETED
C4_DeleteLeavesDeleted ==
    (lastOp = "delete" /\ Returned /\ Len(sent) = 1 /\ sent[1].flag)
        => self._state = DELETED

IdentityFields ==
    << self._id, self._version, self._commit_hash, self._file_count,
       self._created_at, self._updated_at >>

\* C5: an artifact is PENDING exactly when its server-assigned identity is
\* unset, and every artifact that is not PENDING has all of it set
C5_DraftIffIdentityUnset ==
    Live =>
        /\ self._state = PENDING <=> \A i \in 1 .. 6 : IdentityFields[i] = None
        /\ self._state # PENDING => \A i \in 1 .. 6 : IdentityFields[i] # None

DraftRead == Live /\ lastOp = "read" /\ self._state = PENDING

\* C6 as stated: every server-assigned property of a Draft raises
\* ArtifactNotLoggedError
C6_EveryPropertyRaises ==
    DraftRead => \A f \in Props : result.value[f] = Raise("ArtifactNotLoggedError")

\* C6: on a Draft, id and source_version return None and every other
\* server-assigned property raises ArtifactNotLoggedError
C6_DraftProperties ==
    DraftRead =>
        /\ result.value["id"] = Return(None)
        /\ result.value["source_version"] = Return(None)
        /\ \A f \in Props \ {"id", "source_version"} :
               result.value[f] = Raise("ArtifactNotLoggedError")

\* the properties of a Draft whose save was started have been read
C6_Witness == DraftRead /\ self._save_future

\* C7: on a Draft, each of the calls that need a logged artifact raises
\* ArtifactNotLoggedError, sends nothing and changes neither the artifact nor
\* any file
C7_DraftCallsHaveNoEffect ==
    [][ (Live /\ self._state = PENDING /\ lastOp' \in LoggedOnly)
        => /\ result' = Raise("ArtifactNotLoggedError")
           /\ sent' = << >>
           /\ UNCHANGED << self, rootFiles, tmpFiles, logCalls >> ]_vars

\* a Draft with an entry whose delete was refused
C7_Witness ==
    /\ Live
    /\ self._state = PENDING
    /\ DOMAIN self._manifest # {}
    /\ lastOp = "delete"
    /\ Raised("ArtifactNotLoggedError")
    /\ rootFiles = {}

\* C8: an artifact is submitted for logging at most once
C8_SubmittedOnce == logCalls <= 1

Updated == Live /\ lastOp = "save" /\ Len(sent) > 0

\* C9 as stated: no update request carries the alias list
C9_NeverFullReplace ==
    Updated => \A i \in 1 .. Len(sent) :
                   sent[i].op = "updateArtifact" => sent[i].aliases = None

\* C9: against a service that knows AddAliasesInput, an update carries aliases
\* only in addAliases and deleteAliases and never in updateArtifact; against
\* one that does not, updateArtifact carries the whole alias list
C9_DeltasWhenSupported ==
    Updated =>
        /\ sent[1].reply = "AddAliasesInput" =>
               \A i \in 1 .. Len(sent) :
                   sent[i].aliases # None => sent[i].op \in {"addAliases", "deleteAliases"}
        /\ sent[1].reply = "none" =>
               \A i \in 1 .. Len(sent) :
                   sent[i].op = "updateArtifact" => sent[i].aliases = Some(self._aliases)

\* an update that added an alias and then sent updateArtifact
C9_Witness ==
    /\ Updated
    /\ Len(sent) = 3
    /\ sent[2].op = "addAliases"
    /\ sent[3].op = "updateArtifact"
    /\ Returned

AddsOf(s) == UNION {s[i].aliases[1] : i \in {j \in 1 .. Len(s) : s[j].op = "addAliases"}}

DelsOf(s) == UNION {s[i].aliases[1] : i \in {j \in 1 .. Len(s) : s[j].op = "deleteAliases"}}

\* C10: an update that goes through submits for addition the aliases in memory
\* and not last synced, and for deletion those last synced and not in memory
C10_DeltasAgainstLastSynced ==
    [][ (Live /\ self._state # PENDING /\ lastOp' = "save" /\ Len(sent') > 0
         /\ sent'[1].reply = "AddAliasesInput" /\ result'.kind = "return")
        => /\ AddsOf(sent') = self._aliases \ lastSynced
           /\ DelsOf(sent') = lastSynced \ self._aliases ]_vars

\* C11: two artifacts of equal manifest digest committed to one collection
\* report the same version after wait(), and the collection has one version
\* of that digest
C11_SameDigestSameVersion ==
    (self._state = COMMITTED /\ other._state = COMMITTED
        /\ digest_of(self) = digest_of(other))
    => /\ self._version = other._version
       /\ self._version # None
       /\ Cardinality({i \in 1 .. Len(collection) : collection[i] = digest_of(self)}) = 1

\* two committed artifacts that hold one file of equal content
C11_Witness ==
    /\ self._state = COMMITTED
    /\ other._state = COMMITTED
    /\ DOMAIN self._manifest # {}
    /\ digest_of(self) = digest_of(other)
    /\ lastOp = "wait"
    /\ logCalls = 2

C13_DigestOrderIndependent ==
    (pool.op # "none" \/ Len(adds) > 0) =>
        /\ order \in Orders(DOMAIN self._manifest)
        /\ \A o \in Orders(DOMAIN self._manifest) :
               manifest_digest(self._manifest, o) = manifest_digest(self._manifest, order)

\* a manifest of three entries inserted in another order than the sorted one
C13_Witness ==
    /\ Len(order) = 3
    /\ order # sorted(order)
    /\ order \in Orders(DOMAIN self._manifest)

\* the files of the add_dir call whose add goes through
Accepted ==
    {n \in DOMAIN pool.files :
        /\ n \notin pool.unreadable
        /\ ~add_entry_conflict(pool.before, n, Entry(pool.files[n], FALSE))}

\* the manifest an add_dir call leaves, from the manifest before it and the directory
Expected ==
    [q \in DOMAIN pool.before \cup Accepted |->
        IF q \in Accepted THEN Entry(pool.files[q], FALSE) ELSE pool.before[q]]

AddDirDone == lastOp = "add_dir" /\ pool.op = "add_dir" /\ pool.phase = "done"

\* C14: an add_dir call that raises leaves the manifest as it was before the call
C14_AddDirAllOrNothing ==
    (AddDirDone /\ result.kind = "raise") => self._manifest = pool.before

\* C15: the entries and the digest add_dir leaves are fixed by the manifest
\* before the call and the directory, whatever the order the workers finish in
C15_AddDirOrderIndependent ==
    AddDirDone =>
        /\ self._manifest = Expected
        /\ manifest_digest(self._manifest, order) = manifest_digest(Expected, AnOrder(Expected))

\* an add_dir of three files whose adds ended in another order than the walk's
C15_Witness ==
    /\ AddDirDone
    /\ Returned
    /\ pool.before = EmptyManifest
    /\ order = << "c", "a", "b" >>

\* C16: when add_dir or download returns or raises, its pool is closed and joined
C16_PoolJoined ==
    (lastOp \in {"add_dir", "download"} /\ pool.phase = "done") => pool.workers = "joined"

\* the entry a chain of references ends at: the first one that is a file
RECURSIVE EndOf(_)
EndOf(u) ==
    IF _is_artifact_reference(Catalog[u.id][u.path])
    THEN EndOf(Catalog[u.id][u.path].ref[1])
    ELSE u

ReferenceAdded == lastOp = "add_reference" /\ uri # None

\* C17: a reference added to an entry that is itself a reference to an entry
\* of another artifact yields an entry whose ref names the end of the chain,
\* as a reference added to that end does
C17_ChainFlattened ==
    (ReferenceAdded /\ ~self._final) =>
        /\ Returned
        /\ result.value.ref = Some(EndOf(uri[1]))

\* C18: the resolution of a reference at store time ends at an entry that is
\* not a reference to another artifact
C18_ResolutionEndsAtFile ==
    (ReferenceAdded /\ ~self._final) =>
        /\ result.kind # "raise"
        /\ \E u \in ArtifactURIs : ~_is_artifact_reference(Catalog[u.id][u.path])
                                    /\ result.value.ref = Some(u)

C20_SameObject ==
    \A i, j \in 1 .. Len(lookups) :
        lookups[i].id = lookups[j].id => lookups[i].obj = lookups[j].obj

\* C27: a wait(timeout) that times out raises WaitTimeoutError and leaves the
\* artifact as it was, a Draft whose save is still pending; and whenever a Draft
\* has a pending save, timed-out waits or not, a wait() can complete the commit
C27_TimeoutKeepsSave ==
    /\ [][timeouts' > timeouts =>
              /\ lastOp' = "wait"
              /\ result' = Raise("WaitTimeoutError")
              /\ self' = self
              /\ self'._state = PENDING
              /\ self'._save_future]_vars
    /\ []((timeouts > 0 /\ self._state = PENDING /\ self._save_future) =>
              ENABLED wait_committed)

\* a wait timed out, and a later wait committed the same artifact
C27_Witness ==
    /\ timeouts > 0
    /\ lastOp = "wait"
    /\ Returned
    /\ self._state = COMMITTED
    /\ other._state = PENDING
    /\ ~other._save_future

\* C21: of the workers that ask for one content digest at the same time, one
\* transfers it; each of the others waits for that transfer and takes its result
C21_SingleFlight ==
    \A d \in Digests :
        /\ fetch.count[d] <= 1
        /\ Cardinality({t \in DOMAIN fetch.worker :
                            /\ fetch.worker[t].digest = Some(d)
                            /\ \/ fetch.worker[t].at = "fetching"
                               \/ fetch.worker[t].got = "fetched"}) <= 1
        /\ \A t \in DOMAIN fetch.worker :
               (fetch.worker[t].digest = Some(d) /\ fetch.worker[t].at # "idle") =>
                   /\ fetch.count[d] = 1
                   /\ fetch.worker[t].at = "done" => fetch.index[d] = "done"

\* three workers asked for one digest while none had it: one fetched, two waited
C21_Witness ==
    \E d \in Digests :
        /\ fetch.count[d] = 1
        /\ \E t \in DOMAIN fetch.worker :
               fetch.worker[t].digest = Some(d) /\ fetch.worker[t].got = "fetched"
        /\ Cardinality({t \in DOMAIN fetch.worker :
                            /\ fetch.worker[t].digest = Some(d)
                            /\ fetch.worker[t].got = "waited"}) >= 2

\* C22: download(root) neither removes nor changes a file under root whose
\* relative path is not the path of a manifest entry
C22_DownloadAdditive ==
    [][lastOp' = "download" =>
          \A f \in DOMAIN root :
              f \notin DOMAIN self._manifest => (f \in DOMAIN root' /\ root'[f] = root[f])]_vars

\* a download returned into a root that held a file foreign to the manifest
C22_Witness ==
    /\ lastOp = "download"
    /\ Returned
    /\ self._manifest # << >>
    /\ \E f \in DOMAIN root : f \notin DOMAIN self._manifest

\* C23: on a logged artifact, whatever its manifest (references of unknown size
\* included), download(root) returns root, and every entry's file is then under root
C23_DownloadMaterialisesAll ==
    lastOp = "download" =>
        /\ Returned
        /\ DOMAIN self._manifest \subseteq DOMAIN root

\* C24: after checkout(root) has returned, every file under root is at the path
\* of a manifest entry
C24_CheckoutLeavesOnlyEntries ==
    (lastOp = "checkout" /\ Returned) => DOMAIN root \subseteq DOMAIN self._manifest

\* C25: verify(root) fails whenever a file under root is at no manifest entry's path
C25_VerifyRejectsForeign ==
    (lastOp = "verify" /\ \E f \in DOMAIN root : f \notin DOMAIN self._manifest) =>
        result.kind = "raise"

\* the root holds what a download that returned put there, but for the files
\* written since
Downloaded == since.downloaded /\ DOMAIN self._manifest \subseteq DOMAIN root

\* the downloaded files whose bytes are no longer what was downloaded
Changed == {q \in DOMAIN self._manifest : q \in DOMAIN root /\ root[q] # fetched(self._manifest[q])}

\* C26 as stated: verify succeeds after a download, whatever the root held before it
C26_VerifyAfterDownload ==
    (lastOp = "verify" /\ Downloaded /\ Changed = {}) => Returned

\* C26: after a download into a root that holds no file besides the entries',
\* verify succeeds; when then the bytes of one file of an entry that is not a
\* reference are changed, verify fails with a digest mismatch that names the
\* file; the files of references are never hashed
C26_VerifyAfterCleanDownload ==
    /\ (lastOp = "verify" /\ Downloaded /\ DOMAIN root \subseteq DOMAIN self._manifest) =>
          /\ (\A q \in Changed : self._manifest[q].ref) => Returned
          /\ \A q \in DOMAIN self._manifest :
                 (Changed = {q} /\ ~self._manifest[q].ref) =>
                     result = RaiseAbout("ValueError", "Digest mismatch for file", q)
    /\ (lastOp = "verify" /\ result.kind = "raise" /\ result.exc = "ValueError"
            /\ result.what = "Digest mismatch for file") =>
          ~self._manifest[result.file].ref

\* verify failed on the one downloaded file that was changed, in a root that
\* also holds the changed file of a reference
C26_Witness ==
    /\ lastOp = "verify"
    /\ Downloaded
    /\ DOMAIN root \subseteq DOMAIN self._manifest
    /\ \E q, r \in DOMAIN self._manifest :
           /\ ~self._manifest[q].ref
           /\ self._manifest[r].ref
           /\ q \in since.written
           /\ r \in since.written
           /\ root[q] # self._manifest[q].digest
           /\ result = RaiseAbout("ValueError", "Digest mismatch for file", q)

\* C28: get_path(name) on a logged artifact returns the entry at name when there
\* is one, else the entry at name plus the type suffix when there is one, and
\* raises KeyError only when there is neither
C28_GetPathResolution ==
    \A n \in RootFileNames :
        (lastOp = "get_path" /\ since.asked = Some(n)) =>
            IF n \in DOMAIN self._manifest
            THEN result = Return([path |-> n, entry |-> self._manifest[n]])
            ELSE IF with_suffix(n) \in DOMAIN self._manifest
            THEN result = Return([path |-> with_suffix(n),
                                  entry |-> self._manifest[with_suffix(n)]])
            ELSE result.kind = "raise" /\ result.exc = "KeyError"

\* get_path("a") returned the entry at "a" while "a.table.json" exists too
C28_Witness ==
    /\ lastOp = "get_path"
    /\ since.asked = Some("a")
    /\ DOMAIN self._manifest = {"a", with_suffix("a")}
    /\ self._manifest["a"] # self._manifest[with_suffix("a")]
    /\ ~self._manifest["a"].ref
    /\ Returned
    /\ result.value.path = "a"

\* C29: after new_file(name), whether its body or its add failed or not, a file
\* in the artifact's temporary directory is the file of a manifest entry
C29_TmpFileRegisteredOrGone ==
    lastOp = "new_file" => \A n \in tmpFiles : n \in DOMAIN self._manifest

\* a step in which the caller writes or deletes a source file
SourceStep ==
    /\ lastOp' \in {"write", "delete"}
    /\ \E n \in Names :
           \/ (SourceFile(n) \in DOMAIN stage.files) # (SourceFile(n) \in DOMAIN stage'.files)
           \/ /\ SourceFile(n) \in DOMAIN stage.files
              /\ SourceFile(n) \in DOMAIN stage'.files
              /\ stage.files[SourceFile(n)] # stage'.files[SourceFile(n)]

\* C30: once add_file or add_dir has recorded a file, a change or the deletion
\* of the source file changes neither the entry nor the bytes of its staging copy
C30_StagedCopyIndependent ==
    [][SourceStep =>
          /\ self'._manifest = self._manifest
          /\ stage'.local_path = stage.local_path
          /\ \A p \in DOMAIN stage.local_path :
                 /\ p \in DOMAIN self'._manifest
                 /\ stage.local_path[p] \in DOMAIN stage'.files
                 /\ stage'.files[stage.local_path[p]] = stage.files[stage.local_path[p]]]_vars

\* the source of a recorded file was changed, and the source of another was
\* deleted; both entries still have their staging copies
C30_Witness ==
    /\ lastOp \in {"write", "delete"}
    /\ \E p, q \in DOMAIN stage.local_path :
           /\ SourceFile(p) \in DOMAIN stage.files
           /\ stage.files[SourceFile(p)] # self._manifest[p].digest
           /\ SourceFile(q) \notin DOMAIN stage.files
           /\ stage.files[stage.local_path[p]] = self._manifest[p].digest
           /\ stage.files[stage.local_path[q]] = self._manifest[q].digest

\* C34: from_id / from_name give a loaded artifact for every artifact the
\* service returns, whatever its type
C34_LoadsEveryType ==
    (lastOp = "from_attrs" /\ sent = << Req("ArtifactByID", None, None, FALSE, "ok") >>) =>
        (Returned /\ origin = "loaded" /\ self._state # PENDING)

\* the artifacts the manifest of artifact i refers to
DependsOn(i) ==
    {Catalog[i][x].ref[1].id :
        x \in {y \in DOMAIN Catalog[i] : _is_artifact_reference(Catalog[i][y])}}

\* the artifacts reached from i by following such references
ReachedFrom(i) ==
    LET one == DependsOn(i)
        two == one \cup UNION {DependsOn(j) : j \in one}
    IN  two \cup UNION {DependsOn(j) : j \in two}

C32_DigestOfStagedCopy ==
    \A p \in DOMAIN stage.local_path :
        /\ p \in DOMAIN self._manifest
        /\ stage.local_path[p] \in DOMAIN stage.files
        /\ stage.files[stage.local_path[p]] = self._manifest[p].digest

\* C33: new_draft() of a loaded artifact returns a Draft that is not final and
\* has the same entries, description and metadata, and no later change to the
\* draft's manifest or metadata changes the manifest or the metadata of the
\* artifact it was made of
C33_DraftIndependent ==
    /\ [](lastOp = "new_draft" /\ Returned =>
              /\ draft.copy # None
              /\ draft.copy[1].artifact._state = PENDING
              /\ ~draft.copy[1].artifact._final
              /\ draft.copy[1].artifact._manifest = self._manifest
              /\ draft.copy[1].artifact._description = self._description
              /\ draft.heap[draft.copy[1]._metadata] = draft.heap[draft.of_self])
    /\ [][lastOp' \in {"draft.metadata[k]", "draft.metadata", "draft.add_file"} =>
              /\ self'._manifest = self._manifest
              /\ draft'.of_self = draft.of_self
              /\ draft'.heap[draft'.of_self] = draft.heap[draft.of_self]]_vars

\* the events of the kinds evs that the input call c made, in order
Did(c, evs) ==
    LET of_kind(x) == x.ev \in evs IN SelectSeq(c.log, of_kind)

\* the place of each kind of event in a transition
FsmRank(ev) ==
    CASE ev = "condition" -> 0
      [] ev = "on_exit" -> 1
      [] ev = "set" -> 2
      [] ev = "action" -> 3
      [] ev = "on_enter" -> 4
      [] ev = "on_state" -> 5

\* C35: an input call assigns the state at most once; it evaluates the
\* conditions of the row of the state it was called in, in order, up to the
\* first that holds, whose entry it takes; it evaluates no other condition; and
\* when none holds the state stays and no transition step runs
C35_FirstTrueEntryOnly ==
    \A i \in 1 .. Len(fsm.calls) :
        LET c == fsm.calls[i]
            row == FsmTable[c.before]
            conds == Did(c, {"condition"})
            n == Len(conds)
        IN  /\ Len(Did(c, {"set"})) <= 1
            /\ n >= 1
            /\ n <= Len(row)
            /\ \A j \in 1 .. n : conds[j] = FsmEvent("condition", c.before, j)
            /\ \A j \in 1 .. n - 1 : row[j].condition \notin c.inputs
            /\ IF row[n].condition \in c.inputs
               THEN c.outcome = Return(None) =>
                        /\ c.after = row[n].target_state
                        /\ Did(c, {"set"}) = << FsmEvent("set", row[n].target_state, n) >>
               ELSE /\ n = Len(row)
                    /\ c.after = c.before
                    /\ c.outcome = Return(None)
                    /\ Did(c, {"on_exit", "set", "action", "on_enter"}) = << >>

\* two conditions of the row held and the first entry was taken; in another
\* call none held
C35_Witness ==
    /\ \E i \in 1 .. Len(fsm.calls) :
           /\ fsm.calls[i].before = "A"
           /\ fsm.calls[i].inputs = {"c1", "c2"}
           /\ fsm.calls[i].after = "B"
    /\ \E i \in 1 .. Len(fsm.calls) :
           /\ fsm.calls[i].inputs = {"c3"}
           /\ fsm.calls[i].before = "B"
           /\ fsm.calls[i].after = "B"
    /\ \E i \in 1 .. Len(fsm.calls) : fsm.calls[i].inputs = {}

\* C36: the steps of a transition run in the order on_exit (of the old state),
\* assignment of the state, action, on_enter (of the new state); on_exit runs
\* whenever the old state implements it, also when the target is the old state,
\* on_enter only when the target differs from the old state
C36_TransitionOrder ==
    \A i \in 1 .. Len(fsm.calls) :
        LET c == fsm.calls[i]
            steps == Did(c, {"on_exit", "set", "action", "on_enter"})
        IN  Did(c, {"set"}) # << >> =>
                LET k == Did(c, {"set"})[1].k
                    entry == FsmTable[c.before][k]
                IN  /\ \A x, y \in 1 .. Len(steps) :
                           x < y => FsmRank(steps[x].ev) < FsmRank(steps[y].ev)
                    /\ Did(c, {"on_exit"}) =
                           IF c.before \in FsmStateExit
                           THEN << FsmEvent("on_exit", c.before, k) >> ELSE << >>
                    /\ Did(c, {"action"}) =
                           IF entry.action
                           THEN << FsmEvent("action", c.after, k) >> ELSE << >>
                    /\ Did(c, {"on_enter"}) =
                           IF c.before # c.after /\ c.after \in FsmStateEnter
                           THEN << FsmEvent("on_enter", c.after, k) >> ELSE << >>

\* one transition ran all four steps, and a transition of A to itself ran
\* on_exit and no on_enter
C36_Witness ==
    /\ \E i \in 1 .. Len(fsm.calls) :
           Len(Did(fsm.calls[i], {"on_exit", "set", "action", "on_enter"})) = 4
    /\ \E i \in 1 .. Len(fsm.calls) :
           /\ fsm.calls[i].before = "A"
           /\ fsm.calls[i].after = "A"
           /\ Did(fsm.calls[i], {"on_exit", "set", "on_enter"}) =
                  << FsmEvent("on_exit", "A", 2), FsmEvent("set", "A", 2) >>

\* the on_state calls an input call owes: one, on the state it ends in, when
\* that state implements on_state
OnStateOwed(c) ==
    IF c.after \in FsmStateOutput
    THEN << FsmEvent("on_state", c.after, 0) >> ELSE << >>

\* C37 as stated: every input call calls on_state once, last, on the state
\* that is current when the call ends
C37_OnStateOnce ==
    \A i \in 1 .. Len(fsm.calls) :
        LET c == fsm.calls[i]
        IN  /\ c.after = (IF i = Len(fsm.calls) THEN fsm._state ELSE fsm.calls[i + 1].before)
            /\ Did(c, {"on_state"}) = OnStateOwed(c)
            /\ c.after \in FsmStateOutput => c.log[Len(c.log)].ev = "on_state"

\* C37: every input call that returns calls on_state once, last, on the state
\* that is current when the call ends
C37_OnStateOnceWhenReturns ==
    \A i \in 1 .. Len(fsm.calls) :
        LET c == fsm.calls[i]
        IN  /\ c.after = (IF i = Len(fsm.calls) THEN fsm._state ELSE fsm.calls[i + 1].before)
            /\ c.outcome = Return(None) =>
                   /\ Did(c, {"on_state"}) = OnStateOwed(c)
                   /\ c.after \in FsmStateOutput => c.log[Len(c.log)].ev = "on_state"
            /\ c.outcome # Return(None) => Did(c, {"on_state"}) = << >>

\* a call went from A to B and called B's on_state; a call ended in D, which
\* has none; and a call failed
C37_Witness ==
    /\ \E i \in 1 .. Len(fsm.calls) :
           /\ fsm.calls[i].before = "A"
           /\ fsm.calls[i].after = "B"
           /\ Did(fsm.calls[i], {"on_state"}) = << FsmEvent("on_state", "B", 0) >>
    /\ \E i \in 1 .. Len(fsm.calls) :
           fsm.calls[i].after = "D" /\ fsm.calls[i].outcome = Return(None)
    /\ \E i \in 1 .. Len(fsm.calls) : fsm.calls[i].outcome = Raise("KeyError")

\* C38: the current state is always one of the instances passed in; an input
\* whose entry names a state type without an instance fails, leaves the
\* current state as it was, and has run no hook and no action
C38_FailedTransitionDoesNothing ==
    /\ fsm._state \in _state_dict
    /\ Len(fsm.calls) = 0 => fsm._state = FsmStates[1]
    /\ \A i \in 1 .. Len(fsm.calls) :
           LET c == fsm.calls[i]
               k == selected(FsmTable[c.before], c.inputs)
           IN  (k # 0 /\ FsmTable[c.before][k].target_state \notin _state_dict) =>
                   /\ c.outcome = Raise("KeyError")
                   /\ c.after = c.before
                   /\ Did(c, {"on_exit", "action", "on_enter", "on_state"}) = << >>

\* the initialisations and shutdowns of run managers so far, in order
InitsAndShutdowns ==
    LET is(x) == x.call \in {"init_run", "shutdown"} IN SelectSeq(agent.calls, is)

====
